---- MODULE Spec2Model ----
(***************************************************************************)
(* Model of the PTD1 local save server (src/ptd_server_v2.py): the letter  *)
(* codec, the delta-save parser, the snapshot encoder, the JSON file store *)
(* and the HTTP handlers.                                                  *)
(*                                                                         *)
(* Strings are sequences of one-character strings.  Cursors are 0-based,   *)
(* as in the Python source; Slice and At translate to 1-based sequences.   *)
(***************************************************************************)
EXTENDS Integers, Sequences, FiniteSets, TLC

\* ------------------------------------------------------------------------
\* Python string primitives
\* ------------------------------------------------------------------------

Min(a, b) == IF a < b THEN a ELSE b

\* blob[a:b] for 0 <= a: clamps at the end of the string, never raises.
Slice(blob, a, b) == SubSeq(blob, a + 1, Min(b, Len(blob)))

\* blob[i] for 0 <= i < len(blob); the callers guard the IndexError case.
At(blob, i) == blob[i + 1]

\* ------------------------------------------------------------------------
\* PTD encoding / decoding
\* ------------------------------------------------------------------------

LETTER_LIST == <<"m", "y", "w", "c", "q", "a", "p", "r", "e", "o">>

Letters == {LETTER_LIST[k] : k \in 1..Len(LETTER_LIST)}

\* LETTER_TO_DIGIT[ch], as a number
LETTER_TO_DIGIT(ch) == (CHOOSE k \in 1..Len(LETTER_LIST) : LETTER_LIST[k] = ch) - 1

\* DIGIT_TO_LETTER[str(d)]
DIGIT_TO_LETTER(d) == LETTER_LIST[d + 1]

\* The last digit alone
encode_int_last_digit(n) == <<DIGIT_TO_LETTER(n % 10)>>

RECURSIVE encode_int(_)
encode_int(n) ==
    IF n < 10 THEN <<DIGIT_TO_LETTER(n)>>
    ELSE encode_int(n \div 10) \o <<DIGIT_TO_LETTER(n % 10)>>

\* Python integers have no width.  The model's have: every value above Huge
\* is held as Huge, a value larger than every length, count and field the
\* input families encode.
Huge == 2000000000

\* value * 10 + digit
AppendDigit(value, digit) ==
    IF value > (Huge - digit) \div 10 THEN Huge ELSE value * 10 + digit

RECURSIVE DigitsValue(_)
\* int(digits) for a string of letters that are all in the alphabet
DigitsValue(s) ==
    IF s = <<>> THEN 0
    ELSE AppendDigit(DigitsValue(SubSeq(s, 1, Len(s) - 1)), LETTER_TO_DIGIT(s[Len(s)]))

decode_int_string(s) ==
    IF s = <<>> THEN 0
    ELSE IF \E k \in 1..Len(s) : s[k] \notin Letters THEN 0
    ELSE DigitsValue(s)

\* Readers return <<value, cursor>>.  The steps of a reader are operators of
\* their own, each taking what the step before it computed.

\* The value is returned with the cursor left where the value starts
ReadValueNoAdvance(blob, i, length) ==
    IF i + length > Len(blob) THEN <<0, i>>
    ELSE <<decode_int_string(Slice(blob, i, i + length)), i>>

\* After the length: "if i + length > len(blob): return 0, i", else the value
ReadValue(blob, i, length) ==
    IF i + length > Len(blob) THEN <<0, i>>
    ELSE <<decode_int_string(Slice(blob, i, i + length)), i + length>>

read_int(blob, i) ==
    IF i >= Len(blob) THEN <<0, i>>
    ELSE ReadValue(blob, i + 1, decode_int_string(<<At(blob, i)>>))

\* After len_len: the length, then the value
ReadLength(blob, i, len_len) ==
    IF i + len_len > Len(blob) THEN <<0, i>>
    ELSE ReadValue(blob, i + len_len, decode_int_string(Slice(blob, i, i + len_len)))

read_int2(blob, i) ==
    IF i >= Len(blob) THEN <<0, i>>
    ELSE ReadLength(blob, i + 1, decode_int_string(<<At(blob, i)>>))

encode_with_length(n) ==
    LET encoded == encode_int(n)
    IN  encode_int(Len(encoded)) \o encoded

encode_with_double_length(n) ==
    LET encoded == encode_int(n)
        len1 == encode_int(Len(encoded))
        len2 == encode_int(Len(len1))
    IN  len2 \o len1 \o encoded

\* After the length of a string: the raw characters
ReadRaw(blob, i, length) ==
    IF i + length > Len(blob) THEN <<<<>>, i>>
    ELSE <<Slice(blob, i, i + length), i + length>>

read_string(blob, i) ==
    IF i >= Len(blob) THEN <<<<>>, i>>
    ELSE ReadRaw(blob, i + 1, decode_int_string(<<At(blob, i)>>))

\* ------------------------------------------------------------------------
\* Pokemon records and the myID-keyed dict of parse_delta_save
\* ------------------------------------------------------------------------

default_pokemon(poke_id) ==
    [id |-> poke_id, species |-> 1, experience |-> 0, level |-> 5,
     move1 |-> 33, move2 |-> 0, move3 |-> 0, move4 |-> 0,
     moveSelected |-> 1, targetType |-> 1, myID |-> poke_id,
     position |-> poke_id, shiny |-> 0, tag |-> <<>>,
     \* no "extra_rarity" key: poke.get("extra_rarity") is None
     extra_rarity |-> <<>>]

\* A Python dict keeps insertion order: a sequence of [k, v] pairs, keys distinct.
DictKeys(d) == {d[n].k : n \in 1..Len(d)}

DictHas(d, key) == \E n \in 1..Len(d) : d[n].k = key

DictIndex(d, key) == CHOOSE n \in 1..Len(d) : d[n].k = key

DictGet(d, key) == d[DictIndex(d, key)].v

\* d[key] = val: an existing key keeps its place, a new key goes last.
DictSet(d, key, val) ==
    IF DictHas(d, key) THEN [d EXCEPT ![DictIndex(d, key)].v = val]
    ELSE Append(d, [k |-> key, v |-> val])

DictDelAt(d, n) == SubSeq(d, 1, n - 1) \o SubSeq(d, n + 1, Len(d))

\* del d[key]
DictDel(d, key) == DictDelAt(d, DictIndex(d, key))

RECURSIVE DictFromList(_)
\* {p["myID"]: p.copy() for p in existing_pokemon}
DictFromList(existing_pokemon) ==
    IF existing_pokemon = <<>> THEN <<>>
    ELSE DictSet(DictFromList(SubSeq(existing_pokemon, 1, Len(existing_pokemon) - 1)),
                 existing_pokemon[Len(existing_pokemon)].myID,
                 existing_pokemon[Len(existing_pokemon)])

\* max(pokemon_by_id.keys()) if pokemon_by_id else 0
MaxKey(d) ==
    IF d = <<>> THEN 0
    ELSE CHOOSE m \in DictKeys(d) : \A k \in DictKeys(d) : k <= m

\* ------------------------------------------------------------------------
\* Delta save parser (parse_delta_save)
\* ------------------------------------------------------------------------

\* read_int2 for kind "D", read_int otherwise
ReadKind(extra, i, kind) == IF kind = "D" THEN read_int2(extra, i) ELSE read_int(extra, i)

RECURSIVE ReadFieldsFrom(_, _, _, _)
RECURSIVE ReadFieldsNext(_, _, _, _)
\* Consecutive reads "x, i = read_int(extra, i)", one per kind, the values
\* collected in acc.  Returns <<values, cursor>>.
ReadFieldsFrom(extra, i, kinds, acc) ==
    IF kinds = <<>> THEN <<acc, i>>
    ELSE ReadFieldsNext(extra, kinds, acc, ReadKind(extra, i, Head(kinds)))

ReadFieldsNext(extra, kinds, acc, r) ==
    ReadFieldsFrom(extra, r[2], Tail(kinds), Append(acc, r[1]))

ReadFields(extra, i, kinds) == ReadFieldsFrom(extra, i, kinds, <<>>)

\* The eleven integer fields of a needCaptured payload as the apply branch
\* reads them: species, exp(2), level, move1..4, moveSelected, targetType,
\* position, extra_rarity.
CapturedKinds == <<"S", "D", "S", "S", "S", "S", "S", "S", "S", "S", "S">>

\* The ten fields of a needTrade payload.
TradeKinds == <<"S", "D", "S", "S", "S", "S", "S", "S", "S", "S">>

\* The eleven reads of the invalid-entry skip for change type 1:
\* "read_int if _ not in (1, 9) else read_int2", _ = 0..10.
SkipCapturedKinds == <<"S", "D", "S", "S", "S", "S", "S", "S", "S", "D", "S">>

MovesKinds == <<"S", "S", "S", "S">>

\* A new myID from the number of records instead of the largest key
NewMyIDByCount(pokemon_by_id) == Len(pokemon_by_id) + 1

\* max_id + 1 for an entry with myID = 0 whose first change is needCaptured
NewMyID(pokemon_by_id) == MaxKey(pokemon_by_id) + 1

\* The payload skipped for change_type, from cursor i, in an invalid entry
SkipPayloadInvalid(extra, i, change_type) ==
    CASE change_type = 1 ->
           read_string(extra, ReadFields(extra, i, SkipCapturedKinds)[2])[2]
      [] change_type = 2 -> read_int(extra, i)[2]
      [] change_type = 3 -> read_int2(extra, i)[2]
      [] change_type = 4 -> ReadFields(extra, i, MovesKinds)[2]
      [] change_type \in {5, 6, 7, 8} -> read_int(extra, i)[2]
      [] change_type = 9 -> read_string(extra, i)[2]
      [] change_type = 10 -> ReadFields(extra, i, TradeKinds)[2]
      [] OTHER -> i

\* r = read_int(extra, i): the change type and the cursor after it
SkipTypedInvalid(extra, r) == SkipPayloadInvalid(extra, r[2], r[1])

\* Body of the skip loop for an invalid (myID = 0) entry: one change.
SkipChangeInvalid(extra, i) == SkipTypedInvalid(extra, read_int(extra, i))

RECURSIVE SkipInvalidEntry(_, _, _)
\* "for _ in range(change_count)" over SkipChangeInvalid.  Once the cursor is at
\* the end every read returns (0, i), so the remaining iterations change nothing.
SkipInvalidEntry(extra, i, change_count) ==
    IF change_count = 0 \/ i >= Len(extra) THEN i
    ELSE SkipInvalidEntry(extra, SkipChangeInvalid(extra, i), change_count - 1)

\* The payload skipped for ct in an entry with an unknown myID (types 2..9)
SkipPayloadUnknown(extra, i, ct) ==
    CASE ct = 2 -> read_int(extra, i)[2]
      [] ct = 3 -> read_int2(extra, i)[2]
      [] ct = 4 -> ReadFields(extra, i, MovesKinds)[2]
      [] ct \in {5, 6, 7, 8} -> read_int(extra, i)[2]
      [] ct = 9 -> read_string(extra, i)[2]
      [] OTHER -> i

SkipTypedUnknown(extra, r) == SkipPayloadUnknown(extra, r[2], r[1])

\* Body of the skip loop for an unknown myID: one change.
SkipChangeUnknown(extra, i) == SkipTypedUnknown(extra, read_int(extra, i))

RECURSIVE SkipUnknownEntry(_, _, _)
SkipUnknownEntry(extra, i, change_count) ==
    IF change_count = 0 \/ i >= Len(extra) THEN i
    ELSE SkipUnknownEntry(extra, SkipChangeUnknown(extra, i), change_count - 1)

\* The species rule tried before the two lists
RarityBySpeciesFirst(extra_rarity, species) ==
    IF extra_rarity = species THEN 1
    ELSE IF extra_rarity \in {1, 2, 3, 4, 5, 6, 151, 153, 168, 182, 854} THEN 1
    ELSE IF extra_rarity \in {180, 555, 855} THEN 2
    ELSE 0

\* Rarity decoded from the capture payload's extra field.
Rarity(extra_rarity, species) ==
    IF extra_rarity \in {1, 2, 3, 4, 5, 6, 151, 153, 168, 182, 854} THEN 1
    ELSE IF extra_rarity \in {180, 555, 855} THEN 2
    ELSE IF extra_rarity = species THEN 1
    ELSE 0

\* poke[field], i = x
Assign(poke, field, x) == [i |-> x[2], poke |-> [poke EXCEPT ![field] = x[1]]]

\* needMoves: v are the four values read, i the cursor after them
AssignMoves(poke, v, i) ==
    [i |-> i,
     poke |-> [poke EXCEPT !.move1 = v[1], !.move2 = v[2], !.move3 = v[3], !.move4 = v[4]]]

\* The trade that also resets the rarity
AssignTradeResetsRarity(poke, v, i) ==
    [i |-> i,
     poke |-> [poke EXCEPT !.species = v[1], !.experience = v[2], !.level = v[3],
                           !.move1 = v[4], !.move2 = v[5], !.move3 = v[6], !.move4 = v[7],
                           !.moveSelected = v[8], !.targetType = v[9], !.position = v[10],
                           !.shiny = 0]]

\* needTrade: v are the ten values read
AssignTrade(poke, v, i) ==
    [i |-> i,
     poke |-> [poke EXCEPT !.species = v[1], !.experience = v[2], !.level = v[3],
                           !.move1 = v[4], !.move2 = v[5], !.move3 = v[6], !.move4 = v[7],
                           !.moveSelected = v[8], !.targetType = v[9], !.position = v[10]]]

\* The raw extra field kept in the record under "extra_rarity"
AssignCapturedKeepsExtra(poke, v, t) ==
    [i |-> t[2],
     poke |-> [poke EXCEPT !.species = v[1], !.experience = v[2], !.level = v[3],
                           !.move1 = v[4], !.move2 = v[5], !.move3 = v[6], !.move4 = v[7],
                           !.moveSelected = v[8], !.targetType = v[9], !.position = v[10],
                           !.tag = t[1], !.shiny = Rarity(v[11], v[1]),
                           !.extra_rarity = <<v[11]>>]]

\* needCaptured: v are the eleven values read, t = read_string(...) the tag;
\* extra_rarity (v[11]) is a local of the parser, it is not put in the record
AssignCaptured(poke, v, t) ==
    [i |-> t[2],
     poke |-> [poke EXCEPT !.species = v[1], !.experience = v[2], !.level = v[3],
                           !.move1 = v[4], !.move2 = v[5], !.move3 = v[6], !.move4 = v[7],
                           !.moveSelected = v[8], !.targetType = v[9], !.position = v[10],
                           !.tag = t[1], !.shiny = Rarity(v[11], v[1])]]

ApplyCaptured(extra, poke, f) == AssignCaptured(poke, f[1], read_string(extra, f[2]))

ApplyMoves(poke, f) == AssignMoves(poke, f[1], f[2])

ApplyTrade(poke, f) == AssignTrade(poke, f[1], f[2])

\* The branch of the change loop for change_type, payload at cursor i
ApplyPayload(extra, i, poke, change_type) ==
    CASE change_type = 1 -> ApplyCaptured(extra, poke, ReadFields(extra, i, CapturedKinds))
      [] change_type = 2 -> Assign(poke, "level", read_int(extra, i))
      [] change_type = 3 -> Assign(poke, "experience", read_int2(extra, i))
      [] change_type = 4 -> ApplyMoves(poke, ReadFields(extra, i, MovesKinds))
      [] change_type = 5 -> Assign(poke, "moveSelected", read_int(extra, i))
      [] change_type = 6 -> Assign(poke, "species", read_int(extra, i))
      [] change_type = 7 -> Assign(poke, "targetType", read_int(extra, i))
      [] change_type = 8 -> Assign(poke, "position", read_int(extra, i))
      [] change_type = 9 -> Assign(poke, "tag", read_string(extra, i))
      [] change_type = 10 -> ApplyTrade(poke, ReadFields(extra, i, TradeKinds))
      [] OTHER -> [i |-> i, poke |-> poke]

ApplyTyped(extra, r, poke) == ApplyPayload(extra, r[2], poke, r[1])

\* One change applied to poke: reads the change type, then its payload.
\* Returns [i, poke].
ApplyChange(extra, i, poke) == ApplyTyped(extra, read_int(extra, i), poke)

RECURSIVE ApplyChanges(_, _, _, _)
RECURSIVE ApplyRest(_, _, _)
\* "for change_idx in range(change_count)" with its break at the end of data.
ApplyChanges(extra, i, poke, change_count) ==
    IF change_count = 0 \/ i >= Len(extra) THEN [i |-> i, poke |-> poke]
    ELSE ApplyRest(extra, ApplyChange(extra, i, poke), change_count - 1)

ApplyRest(extra, a, change_count) == ApplyChanges(extra, a.i, a.poke, change_count)

\* Index of the first dict item with position == new_position or
\* old_id == new_position; 0 when there is none.
FindReassign(pokemon_by_id, new_position) ==
    IF \E n \in 1..Len(pokemon_by_id) :
           \/ pokemon_by_id[n].v.position = new_position
           \/ pokemon_by_id[n].k = new_position
    THEN CHOOSE n \in 1..Len(pokemon_by_id) :
           /\ \/ pokemon_by_id[n].v.position = new_position
              \/ pokemon_by_id[n].k = new_position
           /\ \A m \in 1..(n - 1) :
                /\ pokemon_by_id[m].v.position # new_position
                /\ pokemon_by_id[m].k # new_position
    ELSE 0

\* Without the del: the record, now with the new myID, stays under its old
\* key too
ReassignMyIDNoDel(pokemon_by_id, n, my_id) ==
    DictSet(DictSet(pokemon_by_id, pokemon_by_id[n].k,
                    [pokemon_by_id[n].v EXCEPT !.myID = my_id]),
            my_id, [pokemon_by_id[n].v EXCEPT !.myID = my_id])

\* del pokemon_by_id[old_id]; poke["myID"] = my_id; pokemon_by_id[my_id] = poke
ReassignMyID(pokemon_by_id, n, my_id) ==
    DictSet(DictDel(pokemon_by_id, pokemon_by_id[n].k), my_id,
            [pokemon_by_id[n].v EXCEPT !.myID = my_id])

\* An iteration that ends in "continue": cursor i, dict unchanged
Continue(i, pokemon_by_id) == [i |-> i, d |-> pokemon_by_id, brk |-> FALSE]

\* The record is mutated in place, so its key keeps its place in the dict.
StoreEntry(pokemon_by_id, my_id, a) ==
    [i |-> a.i, d |-> DictSet(pokemon_by_id, my_id, a.poke), brk |-> FALSE]

\* poke = pokemon_by_id[my_id]; poke["myID"] = my_id; the change loop.
ApplyEntry(extra, i, pokemon_by_id, my_id, change_count) ==
    StoreEntry(pokemon_by_id, my_id,
               ApplyChanges(extra, i, [DictGet(pokemon_by_id, my_id) EXCEPT !.myID = my_id],
                            change_count))

\* The matched record deleted under its old myID and not put back
ReassignEntryDropsRecord(extra, i, pokemon_by_id, my_id, change_count, n) ==
    IF n # 0
    THEN Continue(SkipUnknownEntry(extra, i, change_count),
                  DictDel(pokemon_by_id, pokemon_by_id[n].k))
    ELSE Continue(read_int(extra, read_int(extra, i)[2])[2], pokemon_by_id)

\* The rekeyed record left as it is: the entry's changes skipped, not applied
ReassignEntryNoApply(extra, i, pokemon_by_id, my_id, change_count, n) ==
    IF n # 0
    THEN Continue(SkipUnknownEntry(extra, i, change_count),
                  ReassignMyID(pokemon_by_id, n, my_id))
    ELSE Continue(read_int(extra, read_int(extra, i)[2])[2], pokemon_by_id)

\* posChange for an unknown myID; n is the item found for the new position
ReassignEntry(extra, i, pokemon_by_id, my_id, change_count, n) ==
    IF n # 0
    THEN ApplyEntry(extra, i, ReassignMyID(pokemon_by_id, n, my_id), my_id, change_count)
    ELSE Continue(read_int(extra, read_int(extra, i)[2])[2], pokemon_by_id)

\* The "my_id not in pokemon_by_id" branch; peek = read_int(extra, i)
UnknownByType(extra, i, pokemon_by_id, my_id, change_count, peek) ==
    IF peek[1] = 1 THEN
        ApplyEntry(extra, i, DictSet(pokemon_by_id, my_id, default_pokemon(my_id)),
                   my_id, change_count)
    ELSE IF peek[1] = 8 THEN
        ReassignEntry(extra, i, pokemon_by_id, my_id, change_count,
                      FindReassign(pokemon_by_id, read_int(extra, peek[2])[1]))
    ELSE Continue(SkipUnknownEntry(extra, i, change_count), pokemon_by_id)

UnknownEntry(extra, i, pokemon_by_id, my_id, change_count) ==
    UnknownByType(extra, i, pokemon_by_id, my_id, change_count, read_int(extra, i))

\* "if my_id not in pokemon_by_id" and what follows it
ResolveEntry(extra, i, pokemon_by_id, my_id, change_count) ==
    IF DictHas(pokemon_by_id, my_id)
    THEN ApplyEntry(extra, i, pokemon_by_id, my_id, change_count)
    ELSE UnknownEntry(extra, i, pokemon_by_id, my_id, change_count)

\* "if my_id == 0": read_id is the myID read, first_change_type the peek
DispatchEntry(extra, i, pokemon_by_id, change_count, read_id, first_change_type) ==
    IF read_id = 0 /\ first_change_type # 1
    THEN Continue(SkipInvalidEntry(extra, i, change_count), pokemon_by_id)
    ELSE ResolveEntry(extra, i, pokemon_by_id,
                      IF read_id = 0 THEN NewMyID(pokemon_by_id) ELSE read_id,
                      change_count)

\* rid = read_int2(extra, i): the myID and the cursor after it
EntryWithID(extra, pokemon_by_id, change_count, rid) ==
    DispatchEntry(extra, rid[2], pokemon_by_id, change_count, rid[1],
                  read_int(extra, rid[2])[1])

\* "if change_count == 0: continue", else the myID
EntryWithCount(extra, i, pokemon_by_id, change_count) ==
    IF change_count = 0 THEN Continue(i, pokemon_by_id)
    ELSE EntryWithID(extra, pokemon_by_id, change_count, read_int2(extra, i))

\* "if i + change_count_len > len(extra): break", else the change count
EntryWithCountLen(extra, i, pokemon_by_id, change_count_len) ==
    IF i + change_count_len > Len(extra)
    THEN [i |-> i, d |-> pokemon_by_id, brk |-> TRUE]
    ELSE EntryWithCount(extra, i + change_count_len, pokemon_by_id,
                        decode_int_string(Slice(extra, i, i + change_count_len)))

\* The iteration without the "i += 1" after the letter of change_count_len
ParseEntryNoAdvance(extra, i, pokemon_by_id) ==
    EntryWithCountLen(extra, i, pokemon_by_id, decode_int_string(<<At(extra, i)>>))

\* One iteration of "while i < len(extra)", entered with i < len(extra).
\* Returns [i, d, brk]: the cursor, the dict, and whether the loop broke.
ParseEntry(extra, i, pokemon_by_id) ==
    EntryWithCountLen(extra, i + 1, pokemon_by_id, decode_int_string(<<At(extra, i)>>))

\* After the header: the count.  ok = FALSE is the IndexError of extra[i]
\* when the header length points past the end.
ParseCount(extra, i) ==
    IF i >= Len(extra) THEN [ok |-> FALSE, i |-> i]
    ELSE [ok |-> TRUE, i |-> i + 1 + decode_int_string(<<At(extra, i)>>)]

\* The envelope: header skipped, total count read and ignored.
ParseHeader(extra) == ParseCount(extra, 1 + decode_int_string(<<At(extra, 0)>>))

RECURSIVE RunEntries(_, _, _)
RECURSIVE RunNext(_, _)
\* while i < len(extra): ...
RunEntries(extra, i, pokemon_by_id) ==
    IF i >= Len(extra) THEN pokemon_by_id
    ELSE RunNext(extra, ParseEntry(extra, i, pokemon_by_id))

RunNext(extra, r) == IF r.brk THEN r.d ELSE RunEntries(extra, r.i, r.d)

RECURSIVE DictValuesValid(_)
\* {k: v for k, v in pokemon_by_id.items() if k > 0}.values()
DictValuesValid(d) ==
    IF d = <<>> THEN <<>>
    ELSE (IF Head(d).k > 0 THEN <<Head(d).v>> ELSE <<>>) \o DictValuesValid(Tail(d))

\* p put at index n + 1
InsertAfter(sorted, n, p) ==
    SubSeq(sorted, 1, n) \o <<p>> \o SubSeq(sorted, n + 1, Len(sorted))

\* Insertion of p into a list sorted by position, after every element whose
\* position is <= p's: Python's sorted() is stable.
InsertByPosition(sorted, p) ==
    InsertAfter(sorted, Cardinality({m \in 1..Len(sorted) : sorted[m].position <= p.position}), p)

\* The values in dict order, not sorted
SortedByPositionNoSort(values) == values

RECURSIVE SortedByPosition(_)
\* sorted(values, key=lambda p: p.get("position", ...))
SortedByPosition(values) ==
    IF values = <<>> THEN <<>>
    ELSE InsertByPosition(SortedByPosition(SubSeq(values, 1, Len(values) - 1)),
                          values[Len(values)])

\* The tail of parse_delta_save: drop myID = 0, sort.
FinishDelta(pokemon_by_id) == SortedByPosition(DictValuesValid(pokemon_by_id))

\* The try block, h = ParseHeader(extra): the except leaves the dict as it is
RunDelta(extra, h, pokemon_by_id) ==
    IF h.ok THEN RunEntries(extra, h.i, pokemon_by_id) ELSE pokemon_by_id

parse_delta_save(extra, existing_pokemon) ==
    IF Len(extra) < 4 THEN existing_pokemon
    ELSE FinishDelta(RunDelta(extra, ParseHeader(extra), DictFromList(existing_pokemon)))

\* ------------------------------------------------------------------------
\* Full snapshot encoder
\* ------------------------------------------------------------------------

\* extra_rarity = poke.get("extra_rarity"); the fallback from shiny when the
\* record has no such key
ExtraRarityOf(poke) ==
    IF poke.extra_rarity # <<>> THEN poke.extra_rarity[1]
    ELSE IF poke.shiny = 1 THEN 1
    ELSE IF poke.shiny = 2 THEN 180
    ELSE 0

\* The tag written with encode_with_length(len(tag)) in front
EncodePokemonTagWithLength(poke) ==
    encode_with_length(poke.species)
    \o encode_with_double_length(poke.experience)
    \o encode_with_length(poke.level)
    \o encode_with_length(poke.move1)
    \o encode_with_length(poke.move2)
    \o encode_with_length(poke.move3)
    \o encode_with_length(poke.move4)
    \o encode_with_length(poke.moveSelected)
    \o encode_with_length(poke.targetType)
    \o encode_with_double_length(poke.myID)
    \o encode_with_length(poke.position)
    \o encode_with_length(ExtraRarityOf(poke))
    \o encode_with_length(Len(poke.tag))
    \o poke.tag

EncodePokemon(poke) ==
    encode_with_length(poke.species)
    \o encode_with_double_length(poke.experience)
    \o encode_with_length(poke.level)
    \o encode_with_length(poke.move1)
    \o encode_with_length(poke.move2)
    \o encode_with_length(poke.move3)
    \o encode_with_length(poke.move4)
    \o encode_with_length(poke.moveSelected)
    \o encode_with_length(poke.targetType)
    \o encode_with_double_length(poke.myID)
    \o encode_with_length(poke.position)
    \o encode_with_length(ExtraRarityOf(poke))
    \o encode_int(Len(poke.tag))
    \o poke.tag

RECURSIVE EncodePokemonData(_)
EncodePokemonData(pokemon_list) ==
    IF pokemon_list = <<>> THEN <<>>
    ELSE EncodePokemon(Head(pokemon_list)) \o EncodePokemonData(Tail(pokemon_list))

\* The envelope with a header that counts the element records only
EnvelopeCountsData(count, data) ==
    LET count_encoded == encode_int(count)
        body == encode_int(Len(count_encoded)) \o count_encoded \o data
        header == encode_int(Len(data))
    IN  encode_int(Len(header)) \o header \o body

\* count_len + count + data, then header_len + header in front
Envelope(count, data) ==
    LET count_encoded == encode_int(count)
        body == encode_int(Len(count_encoded)) \o count_encoded \o data
        header == encode_int(Len(body))
    IN  encode_int(Len(header)) \o header \o body

encode_pokemon_snapshot(pokemon_list) ==
    IF pokemon_list = <<>> THEN <<"y", "q", "y", "m">>
    ELSE Envelope(Len(pokemon_list), EncodePokemonData(pokemon_list))

\* ------------------------------------------------------------------------
\* The reader of a snapshot: the client's side, which the repository does not
\* hold.  It reads the layout the encoder's docstring and comments give, with
\* read_int, read_int2 and read_string.
\* ------------------------------------------------------------------------

\* species, exp(2), level, move1..4, moveSelected, targetType, myID(2), pos,
\* extra_rarity
SnapshotKinds == <<"S", "D", "S", "S", "S", "S", "S", "S", "S", "D", "S", "S">>

\* v are the twelve values read, t = read_string(...) the tag
SnapshotRecord(v, t) ==
    [species |-> v[1], experience |-> v[2], level |-> v[3],
     move1 |-> v[4], move2 |-> v[5], move3 |-> v[6], move4 |-> v[7],
     moveSelected |-> v[8], targetType |-> v[9], myID |-> v[10],
     position |-> v[11], extra_rarity |-> v[12], tag |-> t[1]]

RECURSIVE DecodeRecords(_, _, _, _)
DecodeRecordNext(blob, count, acc, v, t) ==
    DecodeRecords(blob, t[2], count - 1, Append(acc, SnapshotRecord(v, t)))

\* The tag: one count letter, then that many raw characters
DecodeRecordTag(blob, count, acc, f) ==
    DecodeRecordNext(blob, count, acc, f[1], read_string(blob, f[2]))

\* count records from cursor i.  Returns [records, i].
DecodeRecords(blob, i, count, acc) ==
    IF count <= 0 THEN [records |-> acc, i |-> i]
    ELSE DecodeRecordTag(blob, count, acc, ReadFields(blob, i, SnapshotKinds))

\* After "header_len + header": "count_len + count", then the records
DecodeSnapshotCount(blob, c) == DecodeRecords(blob, c[2], c[1], <<>>)

DecodeSnapshotBlob(blob) == DecodeSnapshotCount(blob, read_int(blob, read_int(blob, 0)[2]))

\* ------------------------------------------------------------------------
\* Key-value blobs (extra2, extra3, extra4)
\* ------------------------------------------------------------------------

RECURSIVE EncodeKVData(_)
\* data += encode_with_length(int(k)) + encode_with_length(int(v)), per item
EncodeKVData(kv_dict) ==
    IF kv_dict = <<>> THEN <<>>
    ELSE encode_with_length(Head(kv_dict).k) \o encode_with_length(Head(kv_dict).v)
         \o EncodeKVData(Tail(kv_dict))

encode_kv_blob(kv_dict) ==
    IF kv_dict = <<>> THEN <<"y", "q", "y", "m">>
    ELSE Envelope(Len(kv_dict), EncodeKVData(kv_dict))

RECURSIVE ParseKVPairs(_, _, _, _)
\* result[k] = v, and the next pair
ParseKVStore(blob, k, v, count, result) ==
    ParseKVPairs(blob, v[2], count - 1, DictSet(result, k[1], v[1]))

\* v, i = read_int(blob, i)
ParseKVValue(blob, k, count, result) ==
    ParseKVStore(blob, k, read_int(blob, k[2]), count, result)

\* "for _ in range(count)": k, i = read_int(blob, i).  Past the end of the
\* blob every read returns 0 and leaves the cursor: the rest of the loop
\* stores result[0] = 0 again and again.
ParseKVPairs(blob, i, count, result) ==
    IF count <= 0 THEN result
    ELSE IF i >= Len(blob) THEN DictSet(result, 0, 0)
    ELSE ParseKVValue(blob, read_int(blob, i), count, result)

\* The count is read from its first letter alone
ParseKVFromFirstLetter(blob, i, count_len) ==
    ParseKVPairs(blob, i + count_len, decode_int_string(Slice(blob, i, i + 1)), <<>>)

\* count = decode_int_string(blob[i:i+count_len]), then the pairs
ParseKVFrom(blob, i, count_len) ==
    ParseKVPairs(blob, i + count_len, decode_int_string(Slice(blob, i, i + count_len)), <<>>)

\* After the header: count_len = decode_int_string(blob[i]); the IndexError
\* past the end of the blob is caught and {} returned
ParseKVCount(blob, i) ==
    IF i >= Len(blob) THEN <<>>
    ELSE ParseKVFrom(blob, i + 1, decode_int_string(<<At(blob, i)>>))

parse_kv_blob(blob) ==
    IF Len(blob) < 4 THEN <<>>
    ELSE ParseKVCount(blob, 1 + decode_int_string(<<At(blob, 0)>>))

\* ------------------------------------------------------------------------
\* Client side of the delta format: the inputs the parser is run on
\* ------------------------------------------------------------------------

\* A change is [t: type, f: integer payload fields in wire order, s: tag].
NeedCaptured(species, position, extra_rarity, tag) ==
    [t |-> 1, f |-> <<species, 0, 5, 33, 0, 0, 0, 1, 1, position, extra_rarity>>, s |-> tag]

NeedLevel(level) == [t |-> 2, f |-> <<level>>, s |-> <<>>]

NeedExp(experience) == [t |-> 3, f |-> <<experience>>, s |-> <<>>]

NeedMoves(m1, m2, m3, m4) == [t |-> 4, f |-> <<m1, m2, m3, m4>>, s |-> <<>>]

NeedMoveSelected(n) == [t |-> 5, f |-> <<n>>, s |-> <<>>]

NeedEvolve(species) == [t |-> 6, f |-> <<species>>, s |-> <<>>]

NeedTarget(n) == [t |-> 7, f |-> <<n>>, s |-> <<>>]

PosChange(position) == [t |-> 8, f |-> <<position>>, s |-> <<>>]

NeedTag(tag) == [t |-> 9, f |-> <<>>, s |-> tag]

NeedTrade(species, position) ==
    [t |-> 10, f |-> <<species, 77, 9, 1, 2, 3, 4, 2, 2, position>>, s |-> <<>>]

RECURSIVE EncodeFields(_, _)
\* The integer fields of a payload, single- or double-prefixed per kinds.
EncodeFields(f, kinds) ==
    IF f = <<>> THEN <<>>
    ELSE (IF Head(kinds) = "D" THEN encode_with_double_length(Head(f))
          ELSE encode_with_length(Head(f)))
         \o EncodeFields(Tail(f), Tail(kinds))

\* change_type, then the payload of the table in the parser's apply branch.
EncodeChange(c) ==
    encode_with_length(c.t)
    \o (CASE c.t = 1 -> EncodeFields(c.f, CapturedKinds) \o encode_int(Len(c.s)) \o c.s
          [] c.t = 3 -> EncodeFields(c.f, <<"D">>)
          [] c.t = 9 -> encode_int(Len(c.s)) \o c.s
          [] c.t = 10 -> EncodeFields(c.f, TradeKinds)
          [] OTHER -> EncodeFields(c.f, MovesKinds))

RECURSIVE EncodeChanges(_)
EncodeChanges(changes) ==
    IF changes = <<>> THEN <<>>
    ELSE EncodeChange(Head(changes)) \o EncodeChanges(Tail(changes))

\* An entry is [myID, changes]: change_count, myID (double), the changes.
EncodeEntry(e) ==
    encode_with_length(Len(e.changes))
    \o encode_with_double_length(e.myID)
    \o EncodeChanges(e.changes)

RECURSIVE EncodeEntries(_)
EncodeEntries(entries) ==
    IF entries = <<>> THEN <<>>
    ELSE EncodeEntry(Head(entries)) \o EncodeEntries(Tail(entries))

\* header_len + header + poke_count_len + poke_count + entries
EncodeDelta(entries) == Envelope(Len(entries), EncodeEntries(entries))

\* Cursor of the first entry: past the header and the count.
FirstEntryAt(entries) == Len(EncodeDelta(entries)) - Len(EncodeEntries(entries))

\* Cursor of entry k (1-based); k = Len + 1 gives the end of the delta.
EntryAt(entries, k) == FirstEntryAt(entries) + Len(EncodeEntries(SubSeq(entries, 1, k - 1)))

\* entries without its k-th entry
WithoutEntry(entries, k) == SubSeq(entries, 1, k - 1) \o SubSeq(entries, k + 1, Len(entries))

\* ------------------------------------------------------------------------
\* Bounded input families
\* ------------------------------------------------------------------------

\* Changes per entry and entries per delta in the parser's input family.
MaxChanges == 2

MaxEntries == 2

RECURSIVE SeqsUpTo(_, _)
\* Sequences over B of length 0..n
SeqsUpTo(B, n) ==
    IF n = 0 THEN {<<>>}
    ELSE {<<>>} \cup {<<b>> \o r : b \in B, r \in SeqsUpTo(B, n - 1)}

\* Non-empty sequences of length <= n: first element from A, the rest from B.
SeqsFirstRest(A, B, n) ==
    IF n = 0 THEN {} ELSE {<<a>> \o r : a \in A, r \in SeqsUpTo(B, n - 1)}

FirstChanges ==
    {NeedCaptured(1, 1, 0, <<"B", "u">>), NeedCaptured(4, 2, 180, <<>>),
     NeedCaptured(7, 1, 7, <<"y">>),
     NeedLevel(50), NeedExp(1234), NeedMoves(10, 20, 30, 40), NeedMoveSelected(2),
     NeedEvolve(2), NeedTarget(3), PosChange(1), PosChange(2), PosChange(3),
     NeedTag(<<"a", "b">>), NeedTrade(9, 4)}

MoreChanges == {NeedCaptured(180, 2, 180, <<>>), NeedLevel(9), PosChange(2), NeedTrade(9, 4)}

MyIDs == {0, 1, 2, 7}

\* Entries with changes, and the empty entry (change_count = 0) of the layout.
FirstEntries ==
    {[myID |-> id, changes |-> cs] :
        id \in MyIDs, cs \in SeqsFirstRest(FirstChanges, MoreChanges, MaxChanges)}
    \cup {[myID |-> 1, changes |-> <<>>]}

MoreEntries ==
    {[myID |-> 0, changes |-> <<NeedCaptured(1, 1, 0, <<"B", "u">>)>>],
     [myID |-> 2, changes |-> <<NeedCaptured(4, 1, 151, <<>>)>>],
     [myID |-> 1, changes |-> <<NeedLevel(9)>>]}

Deltas == {<<>>} \cup SeqsFirstRest(FirstEntries, MoreEntries, MaxEntries)

\* Deltas cut short at every length, for the failure paths.
TruncatedBases ==
    {<<[myID |-> 0, changes |-> <<NeedCaptured(1, 1, 0, <<"B", "u">>)>>]>>,
     <<[myID |-> 1, changes |-> <<NeedTrade(9, 4), NeedTag(<<"a", "b">>)>>]>>}

ParseInputs ==
    {[entries |-> es, extra |-> EncodeDelta(es), whole |-> TRUE] : es \in Deltas}
    \cup UNION {{[entries |-> es, extra |-> SubSeq(EncodeDelta(es), 1, n), whole |-> FALSE] :
                    n \in 0..(Len(EncodeDelta(es)) - 1)} : es \in TruncatedBases}

\* Rosters the parser is started on: each is what the parser itself returns
\* for a delta of captures applied to the empty roster.
RosterSeeds ==
    {parse_delta_save(EncodeDelta(es), <<>>) : es \in
        {<<>>,
         <<[myID |-> 0, changes |-> <<NeedCaptured(1, 1, 0, <<"B", "u">>)>>]>>,
         <<[myID |-> 0, changes |-> <<NeedCaptured(1, 2, 0, <<>>)>>],
           [myID |-> 0, changes |-> <<NeedCaptured(4, 1, 1, <<"c">>)>>]>>,
         <<[myID |-> 7, changes |-> <<NeedCaptured(5, 3, 555, <<>>)>>]>>}}

\* ------------------------------------------------------------------------
\* State
\* ------------------------------------------------------------------------

VARIABLES
    p_pc,        \* parse_delta_save: "off", "start", "loop", "finish", "done"
    p_entries,   \* the entries the input was encoded from
    p_whole,     \* whether extra is the whole encoding of p_entries
    p_extra,     \* parameter extra
    p_existing,  \* parameter existing_pokemon
    p_i,         \* local i, the cursor
    p_d,         \* local pokemon_by_id
    p_out        \* the returned list

pvars == <<p_pc, p_entries, p_whole, p_extra, p_existing, p_i, p_d, p_out>>

VARIABLES
    account_file,  \* <safe email>_account.json, per safe email
    pokemon_file,  \* <safe email>_pokemon_slot<num>.json, per safe email and num
    raw_file,      \* <safe email>_raw_save.txt
    thr,           \* the request handlers: position and locals of each
    op,            \* the latest request: what it read, what it answered
    last_saved,    \* per safe email and num, the roster the latest save wrote
    n_saves,       \* saveAccount requests taken so far
    n_crashes,     \* crashes of the server process so far
    validate_password  \* handle_load's switch VALIDATE_PASSWORD

svars == <<account_file, pokemon_file, raw_file, thr, op, last_saved, n_saves, n_crashes,
           validate_password>>

VARIABLES
    c_pc,   \* the codec functions: "off", "input", "encoded", "decoded"
    c_in,   \* the value to encode
    c_enc,  \* what the encoder returned, with the suffix that follows it
    c_dec   \* what the decoder returned

cvars == <<c_pc, c_in, c_enc, c_dec>>

vars == <<pvars, svars, cvars>>

\* ------------------------------------------------------------------------
\* parse_delta_save, one loop iteration per step
\* ------------------------------------------------------------------------

ParserOff ==
    /\ p_pc = "off" /\ p_entries = <<>> /\ p_whole = TRUE /\ p_extra = <<>>
    /\ p_existing = <<>> /\ p_i = 0 /\ p_d = <<>> /\ p_out = <<>>

ParserInit ==
    \E inp \in ParseInputs, r \in RosterSeeds :
        /\ p_pc = "start"
        /\ p_entries = inp.entries
        /\ p_whole = inp.whole
        /\ p_extra = inp.extra
        /\ p_existing = r
        /\ p_i = 0
        /\ p_d = <<>>
        /\ p_out = <<>>

\* The early return, else the dict, the header and the count.
ParseStart ==
    /\ p_pc = "start"
    /\ IF Len(p_extra) < 4 THEN
           /\ p_pc' = "done"
           /\ p_out' = p_existing
           /\ UNCHANGED <<p_i, p_d>>
       ELSE /\ p_d' = DictFromList(p_existing)
            /\ p_i' = IF ParseHeader(p_extra).ok THEN ParseHeader(p_extra).i ELSE 0
            /\ p_pc' = IF ParseHeader(p_extra).ok /\ ParseHeader(p_extra).i < Len(p_extra)
                       THEN "loop" ELSE "finish"
            /\ UNCHANGED p_out
    /\ UNCHANGED <<p_entries, p_whole, p_extra, p_existing>>

\* r is what the iteration returns
ParseLoopTo(r) ==
    /\ p_i' = r.i
    /\ p_d' = r.d
    /\ p_pc' = IF r.brk \/ r.i >= Len(p_extra) THEN "finish" ELSE "loop"

\* One iteration of the while loop.
ParseLoop ==
    /\ p_pc = "loop"
    /\ ParseLoopTo(ParseEntry(p_extra, p_i, p_d))
    /\ UNCHANGED <<p_entries, p_whole, p_extra, p_existing, p_out>>

\* The filter and the sort.
ParseReturn ==
    /\ p_pc = "finish"
    /\ p_out' = FinishDelta(p_d)
    /\ p_pc' = "done"
    /\ UNCHANGED <<p_entries, p_whole, p_extra, p_existing, p_i, p_d>>

ParserNext == ParseStart \/ ParseLoop \/ ParseReturn

\* ------------------------------------------------------------------------
\* The file store (load_account / save_account)
\* ------------------------------------------------------------------------

\* A file: absent, open for writing and not yet dumped ("torn": truncated by
\* open(path, "w"), json.load fails on it), or holding one JSON value.
NoFile == [st |-> "absent", c |-> <<>>]

TornFile == [st |-> "torn", c |-> <<>>]

FileOf(v) == [st |-> "ok", c |-> <<v>>]

RECURSIVE safe_email(_)
\* email.replace("@", "_at_").replace(".", "_")
safe_email(email) ==
    IF email = <<>> THEN <<>>
    ELSE (CASE Head(email) = "@" -> <<"_", "a", "t", "_">>
            [] Head(email) = "." -> <<"_">>
            [] OTHER -> <<Head(email)>>)
         \o safe_email(Tail(email))

Emails == {<<"a", "@", "b", ".", "c">>}

Passwords == {"p"}

SafeEmails == {safe_email(e) : e \in Emails}

\* Values of the num parameter
NumValues == {"1", "2", "3"}

\* load_account(email, slot).  exc: json.load raised on a torn file.
\* account is <<>> for {} (no file), else <<the account>>.
load_account(email, slot) ==
    LET a == account_file[safe_email(email)]
        p == pokemon_file[safe_email(email)][slot]
    IN  [exc |-> a.st = "torn" \/ p.st = "torn",
         account |-> a.c,
         pokemon |-> IF p.st = "ok" THEN p.c[1] ELSE <<>>]

\* load_account(email): the account alone
load_account_only(email) ==
    LET a == account_file[safe_email(email)]
    IN  [exc |-> a.st = "torn", account |-> a.c]

\* ------------------------------------------------------------------------
\* Accounts
\* ------------------------------------------------------------------------

\* random.randint(1000, 99999) and generate_random_save_id(): two of the draws
Identities ==
    {[trainer_id |-> 1000,
      current_save |-> <<"a", "b", "c", "d", "e", "f", "g", "h", "i", "j", "0", "1", "2", "3">>],
     [trainer_id |-> 99999,
      current_save |-> <<"0", "0", "0", "0", "0", "0", "0", "0", "0", "0", "0", "0", "0", "0">>]}

\* "0" * 151
ZeroPokedex == [n \in 1..151 |-> "0"]

\* A dict value that may lack keys: each field is <<>> (no key) or <<value>>.
\* The slot dict handle_load writes
CreatedSlot ==
    [nickname |-> <<"Satoshi">>, avatar |-> <<"none">>, badges |-> <<>>, money |-> <<50>>,
     version |-> <<>>, advanced |-> <<>>, advanced_a |-> <<>>, classic |-> <<>>,
     challenge |-> <<>>]

\* The created account with slots 1 and 2 alone
NewAccountOnLoadTwoSlots(ident, password) ==
    [trainer_id |-> ident.trainer_id, current_save |-> ident.current_save,
     password |-> <<password>>,
     slots |-> [n \in {"1", "2"} |-> CreatedSlot],
     pokedex |-> ZeroPokedex,
     inventory |-> <<>>, achievements |-> <<>>, extraInfo |-> <<>>]

\* The account handle_load creates.  The three key-value dicts are pair
\* sequences like the parser's dict; the requests of the model send no
\* pokedex, extra2, extra3 or extra4, so the handlers leave the four as they are.
NewAccountOnLoad(ident, password) ==
    [trainer_id |-> ident.trainer_id, current_save |-> ident.current_save,
     password |-> <<password>>,
     slots |-> [n \in {"1", "2", "3"} |-> CreatedSlot],
     pokedex |-> ZeroPokedex,
     inventory |-> <<>>, achievements |-> <<>>, extraInfo |-> <<>>]

\* The account handle_save creates when there is none: no password, no slots
NewAccountOnSave(ident) ==
    [trainer_id |-> ident.trainer_id, current_save |-> ident.current_save,
     password |-> <<>>,
     slots |-> [n \in {} |-> CreatedSlot],
     pokedex |-> ZeroPokedex,
     inventory |-> <<>>, achievements |-> <<>>, extraInfo |-> <<>>]

\* Every save starts from a newly created account
AccountForSaveFresh(loaded, ident) == NewAccountOnSave(ident)

\* "if not account: account = {...}": the loaded account, or a new one
AccountForSave(loaded, ident) ==
    IF loaded = <<>> THEN NewAccountOnSave(ident) ELSE loaded[1]

\* Every slot of the account takes the value
SetSlotAll(slots, slot, value) == [n \in DOMAIN slots \cup {slot} |-> value]

\* slots[slot] = value
SetSlot(slots, slot, value) ==
    [n \in DOMAIN slots \cup {slot} |-> IF n = slot THEN value ELSE slots[n]]

\* ------------------------------------------------------------------------
\* Request parameters
\* ------------------------------------------------------------------------

DecimalDigits == <<"0", "1", "2", "3", "4", "5", "6", "7", "8", "9">>

RECURSIVE DecimalValue(_)
DecimalValue(s) ==
    IF s = <<>> THEN 0
    ELSE DecimalValue(SubSeq(s, 1, Len(s) - 1)) * 10
         + ((CHOOSE k \in 1..10 : DecimalDigits[k] = s[Len(s)]) - 1)

\* int(s) for a parameter string: ValueError (ok = FALSE) unless all digits
PyInt(s) ==
    IF s # <<>> /\ \A k \in 1..Len(s) : \E d \in 1..10 : DecimalDigits[d] = s[k]
    THEN [ok |-> TRUE, v |-> DecimalValue(s)]
    ELSE [ok |-> FALSE, v |-> 0]

\* int(save_data.get(name, default)): opt is <<>> when the parameter is absent
IntParam(opt, default) == IF opt = <<>> THEN PyInt(default) ELSE PyInt(opt[1])

\* save_data.get(name, default)
StrParam(opt, default) == IF opt = <<>> THEN default ELSE opt[1]

\* ------------------------------------------------------------------------
\* ProfileID computation
\* ------------------------------------------------------------------------

LowerCase ==
    <<"a", "b", "c", "d", "e", "f", "g", "h", "i", "j", "k", "l", "m",
      "n", "o", "p", "q", "r", "s", "t", "u", "v", "w", "x", "y", "z">>

\* mapping.get(c, 0): a..z are 1..26, the digits 1..9 are 1..9
char_to_value(c) ==
    IF \E k \in 1..Len(LowerCase) : LowerCase[k] = c
    THEN CHOOSE k \in 1..Len(LowerCase) : LowerCase[k] = c
    ELSE IF \E k \in 2..Len(DecimalDigits) : DecimalDigits[k] = c
    THEN (CHOOSE k \in 2..Len(DecimalDigits) : DecimalDigits[k] = c) - 1
    ELSE 0

\* letters[n] for 0 <= n < 26, "" otherwise
num_to_letter(n) == IF 0 <= n /\ n < Len(LowerCase) THEN <<LowerCase[n + 1]>> ELSE <<>>

\* sum(char_to_value(c) for c in current_save)
RECURSIVE CharSum(_)
CharSum(current_save) ==
    IF current_save = <<>> THEN 0
    ELSE char_to_value(Head(current_save)) + CharSum(Tail(current_save))

\* str(n) for n >= 0
RECURSIVE PyStr(_)
PyStr(n) ==
    IF n < 10 THEN <<DecimalDigits[n + 1]>>
    ELSE PyStr(n \div 10) \o <<DecimalDigits[(n % 10) + 1]>>

\* int(c) for a decimal digit c
DigitOf(c) == (CHOOSE k \in 1..Len(DecimalDigits) : DecimalDigits[k] = c) - 1

\* Each digit shifted by the last digit of the product
ProfileLettersByLastDigit(result_str, first_digit) ==
    IF result_str = <<>> THEN <<>>
    ELSE [k \in 1..Len(result_str) |->
            LowerCase[DigitOf(result_str[k]) + DigitOf(result_str[Len(result_str)]) + 1]]

\* for c in result_str: profile_id += num_to_letter(int(c) + first_digit)
RECURSIVE ProfileLetters(_, _)
ProfileLetters(result_str, first_digit) ==
    IF result_str = <<>> THEN <<>>
    ELSE num_to_letter(DigitOf(Head(result_str)) + first_digit)
         \o ProfileLetters(Tail(result_str), first_digit)

\* result_str = str(result); first_digit = int(result_str[0])
ProfileOfResult(result_str) == ProfileLetters(result_str, DigitOf(result_str[1]))

\* A trainer_id above 99999 accepted
ProfileGuardNoUpperLimit(trainer_id, char_sum) == char_sum = 0 \/ trainer_id < 333

\* char_sum == 0 or trainer_id < 333 or trainer_id > 99999
ProfileGuard(trainer_id, char_sum) ==
    char_sum = 0 \/ trainer_id < 333 \/ trainer_id > 99999

\* None is <<>>, a ProfileID p is <<p>>
compute_profile_id(current_save, trainer_id) ==
    IF Len(current_save) # 14 THEN <<>>
    ELSE IF ProfileGuard(trainer_id, CharSum(current_save)) THEN <<>>
    ELSE <<ProfileOfResult(PyStr(trainer_id * CharSum(current_save) * 14))>>

\* The scalar parameters of a save: each <<>> (absent) or <<raw string>>
NoScalars ==
    [nickname |-> <<>>, avatar |-> <<>>, badges |-> <<>>, money |-> <<>>,
     version |-> <<>>, advanced |-> <<>>, advanced_a |-> <<>>, classic |-> <<>>,
     challenge |-> <<>>]

SomeScalars ==
    [nickname |-> <<"Red">>, avatar |-> <<"boy">>, badges |-> <<<<"3">>>>,
     money |-> <<<<"1", "2", "0">>>>, version |-> <<<<"2">>>>, advanced |-> <<<<"1">>>>,
     advanced_a |-> <<<<"4">>>>, classic |-> <<<<"5">>>>, challenge |-> <<<<"6">>>>]

\* The scalar parameters of a save whose badges value is not a number
BadScalars == [SomeScalars EXCEPT !.badges = <<<<"x">>>>]

\* account["slots"][slot] = {...}: ok = FALSE when an int() raises ValueError
SlotFromSave(scal) ==
    LET badges == IntParam(scal.badges, <<"0">>)
        money == IntParam(scal.money, <<"5", "0">>)
        version == IntParam(scal.version, <<"0">>)
        advanced == IntParam(scal.advanced, <<"0">>)
        advanced_a == IntParam(scal.advanced_a, <<"0">>)
        classic == IntParam(scal.classic, <<"0">>)
        challenge == IntParam(scal.challenge, <<"0">>)
    IN  [ok |-> /\ badges.ok /\ money.ok /\ version.ok /\ advanced.ok
                /\ advanced_a.ok /\ classic.ok /\ challenge.ok,
         v |-> [nickname |-> <<StrParam(scal.nickname, "Satoshi")>>,
                avatar |-> <<StrParam(scal.avatar, "none")>>,
                badges |-> <<badges.v>>, money |-> <<money.v>>,
                version |-> <<version.v>>, advanced |-> <<advanced.v>>,
                advanced_a |-> <<advanced_a.v>>, classic |-> <<classic.v>>,
                challenge |-> <<challenge.v>>]]

\* The extra parameter of the saves the server is driven with: absent, the
\* empty delta, captures, an evolution, a myID reassignment, and a capture cut
\* off after its change type, before the first field of the payload.
ServerDeltas ==
    {[extra |-> <<>>, whole |-> TRUE]}
    \cup {[extra |-> EncodeDelta(es), whole |-> TRUE] : es \in
            {<<>>,
             <<[myID |-> 0, changes |-> <<NeedCaptured(1, 1, 0, <<"B", "u">>)>>]>>,
             <<[myID |-> 0, changes |-> <<NeedCaptured(4, 2, 180, <<>>)>>]>>,
             <<[myID |-> 2, changes |-> <<NeedCaptured(7, 1, 7, <<>>)>>]>>,
             <<[myID |-> 1, changes |-> <<NeedEvolve(2)>>]>>,
             <<[myID |-> 7, changes |-> <<PosChange(1)>>]>>}}
    \cup {[extra |-> SubSeq(EncodeDelta(es), 1, 12), whole |-> FALSE] : es \in
            {<<[myID |-> 0, changes |-> <<NeedCaptured(1, 1, 0, <<"B", "u">>)>>]>>}}

\* The deltas of the saves that start a new game or send scalars
FewDeltas ==
    {[extra |-> <<>>, whole |-> TRUE],
     [extra |-> EncodeDelta(<<[myID |-> 0, changes |-> <<NeedCaptured(4, 2, 555, <<>>)>>]>>),
      whole |-> TRUE]}

SaveRequest(e, pw, n, g, d, sc) ==
    [Action |-> "saveAccount", Email |-> e, Pass |-> pw, num |-> n, newGame |-> g,
     extra |-> d.extra, whole |-> d.whole, scal |-> sc]

\* Saves to slots 1 and 2 with every delta; saves that start a new game in
\* slot 1; saves to slot 3 that send the scalar parameters, numeric or not.
SaveRequests ==
    {SaveRequest(e, pw, n, "no", d, NoScalars) :
        e \in Emails, pw \in Passwords, n \in {"1", "2"}, d \in ServerDeltas}
    \cup {SaveRequest(e, pw, "1", "yes", d, NoScalars) :
            e \in Emails, pw \in Passwords, d \in FewDeltas}
    \cup {SaveRequest(e, pw, "3", "no", d, SomeScalars) :
            e \in Emails, pw \in Passwords, d \in FewDeltas}
    \cup {SaveRequest(e, pw, "3", "no", [extra |-> <<>>, whole |-> TRUE], BadScalars) :
            e \in Emails, pw \in Passwords}

LoadRequests ==
    {[Action |-> a, Email |-> e, Pass |-> pw, num |-> "1", newGame |-> "no",
      extra |-> <<>>, whole |-> TRUE, scal |-> NoScalars] :
        a \in {"loadAccount", "createAccount"}, e \in Emails, pw \in Passwords}

\* Loads that supply another password
OtherPassLoads ==
    {[Action |-> "loadAccount", Email |-> e, Pass |-> "q", num |-> "1", newGame |-> "no",
      extra |-> <<>>, whole |-> TRUE, scal |-> NoScalars] : e \in Emails}

NoRequest ==
    [Action |-> "", Email |-> <<>>, Pass |-> "", num |-> "1", newGame |-> "no",
     extra |-> <<>>, whole |-> TRUE, scal |-> NoScalars]

\* ------------------------------------------------------------------------
\* The HTTP server and its handlers
\* ------------------------------------------------------------------------

\* Handler threads the model provides and requests it takes
MaxThreads == 2

MaxSaves == 2

MaxCrashes == 1

Threads == 1..MaxThreads

\* handle_load's switches
AUTO_CREATE == TRUE

VALIDATE_PASSWORD == FALSE

IdleThread ==
    [pc |-> "idle", req |-> NoRequest, account |-> <<>>, pokemon |-> <<>>,
     pre_account |-> NoFile, pre_pokemon |-> NoFile]

NoOp ==
    [phase |-> "none", req |-> NoRequest, pre_account |-> NoFile, pre_pokemon |-> NoFile,
     post_account |-> <<>>, post_pokemon |-> <<>>, resp |-> [kind |-> "none"]]

\* A server that hands each request to a thread of its own
CanAcceptThreaded == TRUE

\* HTTPServer (not ThreadingHTTPServer): serve_forever handles a request to
\* its end on the one thread before it accepts the next.
CanAccept == \A t \in Threads : thr[t].pc = "idle"

\* The thread that takes the next request: the first idle one
NextThread(t) ==
    /\ thr[t].pc = "idle"
    /\ \A u \in Threads : u < t => thr[u].pc # "idle"

\* No file in the save directory for the file-name prefixes S, no request
\* taken yet
StoreOf(S) ==
    /\ account_file = [se \in S |-> NoFile]
    /\ pokemon_file = [se \in S |-> [n \in NumValues |-> NoFile]]
    /\ raw_file = [se \in S |-> NoFile]
    /\ thr = [t \in Threads |-> IdleThread]
    /\ op = NoOp
    /\ last_saved = [se \in S |-> [n \in NumValues |-> <<>>]]
    /\ n_saves = 0
    /\ n_crashes = 0

EmptyStore == StoreOf(SafeEmails)

\* The server as it is shipped: VALIDATE_PASSWORD = False
ServerInit == EmptyStore /\ validate_password = VALIDATE_PASSWORD

\* The server with the switch changed to True, as its comment describes
ServerInitValidating == EmptyStore /\ validate_password = TRUE

\* The pairs keyed by the index in the roster, not by the position
NewPokePosByIndex(pokemon) == [n \in 1..Len(pokemon) |-> <<n, pokemon[n].myID>>]

RECURSIVE NewPokePos(_)
\* "&newPokePos_{pos}={my_id}" for each record, as <<pos, my_id>> pairs
NewPokePos(pokemon) ==
    IF pokemon = <<>> THEN <<>>
    ELSE <<<<Head(pokemon).position, Head(pokemon).myID>>>> \o NewPokePos(Tail(pokemon))

SaveResponse(account, pokemon) ==
    [kind |-> "save", Result |-> "Success", newSave |-> account.current_save,
     newPokePos |-> NewPokePos(pokemon)]

\* A handler that raised: the exception leaves do_POST, no response is written
ExceptionResponse == [kind |-> "exception"]

\* The roster files build_load_response reads
LoadRosters(email) ==
    [n \in {"1", "2", "3"} |-> load_account(email, n)]

\* f"{profile_id}": the letters, or the text None for no identity
FormatProfileID(profile_id) ==
    IF profile_id = <<>> THEN <<"N", "o", "n", "e">> ELSE profile_id[1]

\* The name of every record has the default
PokemonNameDefault(poke, i) == <<"P", "o", "k", "e", "m", "o", "n">> \o PyStr(i)

\* poke.get("tag", f"Pokemon{i}"): the default only for a record without the
\* key "tag"
PokemonName(poke, i) ==
    IF "tag" \in DOMAIN poke THEN poke.tag
    ELSE <<"P", "o", "k", "e", "m", "o", "n">> \o PyStr(i)

\* The pSPNi values of a roster, i = 1 .. len(roster)
PokemonNames(roster) == [i \in 1..Len(roster) |-> PokemonName(roster[i], i)]

\* The keys of the response that the properties read; a key is <<>> when the
\* response does not have it, else <<value>>.  ProfileID is always appended.
build_load_response(email, account) ==
    LET r == LoadRosters(email)
    IN  [kind |-> "load", Result |-> "Success", Reason |-> "LoggedIn",
         CurrentSave |-> account.current_save, newSave |-> account.current_save,
         TrainerID |-> account.trainer_id,
         ProfileID |-> <<FormatProfileID(compute_profile_id(account.current_save,
                                                            account.trainer_id))>>,
         PN |-> [n \in {"1", "2", "3"} |-> PokemonNames(r[n].pokemon)],
         PC |-> [n \in {"1", "2", "3"} |-> Len(r[n].pokemon)],
         pextra |-> [n \in {"1", "2", "3"} |-> encode_pokemon_snapshot(r[n].pokemon)]]

\* The roster is kept whatever newGame says
KeepIfNewGame(is_new_game, pokemon) == pokemon

\* "if is_new_game: pokemon = []"
ClearIfNewGame(is_new_game, pokemon) == IF is_new_game THEN <<>> ELSE pokemon

\* handle_save up to the call of save_account: the raw dump, load_account, the
\* newGame reset, the account and slot update, parse_delta_save.  The try
\* around parse_delta_save never catches: the parser catches its own errors.
SaveBegin(t, req) ==
    /\ CanAccept
    /\ NextThread(t)
    /\ n_saves < MaxSaves
    /\ n_saves' = n_saves + 1
    /\ raw_file' = [raw_file EXCEPT ![safe_email(req.Email)] = FileOf(req)]
    /\ LET ld == load_account(req.Email, req.num)
           slot == SlotFromSave(req.scal)
           pokemon0 == ClearIfNewGame(req.newGame = "yes", ld.pokemon)
           pre == [pre_account |-> account_file[safe_email(req.Email)],
                   pre_pokemon |-> pokemon_file[safe_email(req.Email)][req.num]]
       IN  IF ld.exc \/ ~slot.ok THEN
               /\ op' = [NoOp EXCEPT !.phase = "done", !.req = req,
                                     !.pre_account = pre.pre_account,
                                     !.pre_pokemon = pre.pre_pokemon,
                                     !.resp = ExceptionResponse]
               /\ UNCHANGED thr
           ELSE \E ident \in (IF ld.account = <<>> THEN Identities ELSE {CHOOSE x \in Identities : TRUE}) :
               LET account0 == AccountForSave(ld.account, ident)
                   account1 == [account0 EXCEPT !.slots = SetSlot(@, req.num, slot.v)]
                   pokemon1 == parse_delta_save(req.extra, pokemon0)
               IN  /\ thr' = [thr EXCEPT ![t] =
                                [pc |-> "open_account", req |-> req,
                                 account |-> <<account1>>, pokemon |-> pokemon1,
                                 pre_account |-> pre.pre_account,
                                 pre_pokemon |-> pre.pre_pokemon]]
                   /\ op' = [NoOp EXCEPT !.phase = "running", !.req = req,
                                         !.pre_account = pre.pre_account,
                                         !.pre_pokemon = pre.pre_pokemon,
                                         !.post_account = <<account1>>,
                                         !.post_pokemon = pokemon1]
    /\ UNCHANGED <<account_file, pokemon_file, last_saved, n_crashes, validate_password, pvars, cvars>>

\* handle_load up to save_account (a new account) or build_load_response
LoadBegin(t, req) ==
    /\ CanAccept
    /\ NextThread(t)
    /\ LET ld == load_account_only(req.Email)
           pre == [pre_account |-> account_file[safe_email(req.Email)],
                   pre_pokemon |-> pokemon_file[safe_email(req.Email)]["1"]]
           seen == [NoOp EXCEPT !.req = req, !.pre_account = pre.pre_account,
                                !.pre_pokemon = pre.pre_pokemon]
       IN  IF ld.exc THEN
               /\ op' = [seen EXCEPT !.phase = "done", !.resp = ExceptionResponse]
               /\ UNCHANGED thr
           ELSE IF ld.account = <<>> THEN
               IF req.Action = "createAccount" \/ (AUTO_CREATE /\ req.Action = "loadAccount")
               THEN \E ident \in Identities :
                       /\ thr' = [thr EXCEPT ![t] =
                                    [pc |-> "open_account", req |-> req,
                                     account |-> <<NewAccountOnLoad(ident, req.Pass)>>,
                                     pokemon |-> <<>>,
                                     pre_account |-> pre.pre_account,
                                     pre_pokemon |-> pre.pre_pokemon]]
                       /\ op' = [seen EXCEPT !.phase = "running",
                                             !.post_account = <<NewAccountOnLoad(ident, req.Pass)>>]
               ELSE /\ op' = [seen EXCEPT !.phase = "done",
                                          !.resp = [kind |-> "fail", Result |-> "Failure",
                                                    Reason |-> "NotFound"]]
                    /\ UNCHANGED thr
           ELSE IF /\ validate_password
                   /\ ld.account[1].password # <<>>
                   /\ ld.account[1].password # <<"">>
                   /\ ld.account[1].password # <<req.Pass>>
           THEN /\ op' = [seen EXCEPT !.phase = "done",
                                      !.resp = [kind |-> "fail", Result |-> "Failure",
                                                Reason |-> "WrongPass"]]
                /\ UNCHANGED thr
           ELSE /\ thr' = [thr EXCEPT ![t] =
                             [pc |-> "build_load_response", req |-> req,
                              account |-> ld.account, pokemon |-> <<>>,
                              pre_account |-> pre.pre_account,
                              pre_pokemon |-> pre.pre_pokemon]]
                /\ op' = [seen EXCEPT !.phase = "running", !.post_account = ld.account]
    /\ UNCHANGED <<account_file, pokemon_file, raw_file, last_saved, n_saves, n_crashes, validate_password, pvars, cvars>>

\* Every roster written to the file of slot 1
WriteSlotOne(req) == "1"

\* The slot save_account writes: the save's num, "1" for a created account
WriteSlot(req) == IF req.Action = "saveAccount" THEN req.num ELSE "1"

\* save_account: open(account_path, "w")
OpenAccount(t) ==
    /\ thr[t].pc = "open_account"
    /\ account_file' = [account_file EXCEPT ![safe_email(thr[t].req.Email)] = TornFile]
    /\ thr' = [thr EXCEPT ![t].pc = "dump_account"]
    /\ UNCHANGED <<pokemon_file, raw_file, op, last_saved, n_saves, n_crashes, validate_password, pvars, cvars>>

\* save_account: json.dump(account, f) and the close
DumpAccount(t) ==
    /\ thr[t].pc = "dump_account"
    /\ account_file' = [account_file EXCEPT ![safe_email(thr[t].req.Email)] =
                            FileOf(thr[t].account[1])]
    /\ thr' = [thr EXCEPT ![t].pc = "open_pokemon"]
    /\ UNCHANGED <<pokemon_file, raw_file, op, last_saved, n_saves, n_crashes, validate_password, pvars, cvars>>

\* save_account: open(pokemon_path, "w")
OpenPokemon(t) ==
    /\ thr[t].pc = "open_pokemon"
    /\ pokemon_file' = [pokemon_file EXCEPT
                          ![safe_email(thr[t].req.Email)][WriteSlot(thr[t].req)] = TornFile]
    /\ thr' = [thr EXCEPT ![t].pc = "dump_pokemon"]
    /\ UNCHANGED <<account_file, raw_file, op, last_saved, n_saves, n_crashes, validate_password, pvars, cvars>>

\* save_account: json.dump(pokemon, f) and the close; then handle_save builds
\* its response, handle_load goes on to build_load_response
DumpPokemon(t) ==
    /\ thr[t].pc = "dump_pokemon"
    /\ pokemon_file' = [pokemon_file EXCEPT
                          ![safe_email(thr[t].req.Email)][WriteSlot(thr[t].req)] =
                              FileOf(thr[t].pokemon)]
    /\ IF thr[t].req.Action = "saveAccount" THEN
           /\ thr' = [thr EXCEPT ![t] = IdleThread]
           /\ op' = [op EXCEPT !.phase = "done",
                               !.resp = SaveResponse(thr[t].account[1], thr[t].pokemon)]
           /\ last_saved' = [last_saved EXCEPT
                               ![safe_email(thr[t].req.Email)][thr[t].req.num] = thr[t].pokemon]
       ELSE
           /\ thr' = [thr EXCEPT ![t].pc = "build_load_response"]
           /\ UNCHANGED <<op, last_saved>>
    /\ UNCHANGED <<account_file, raw_file, n_saves, n_crashes, validate_password, pvars, cvars>>

\* build_load_response: reads the three roster files, answers
LoadRespond(t) ==
    /\ thr[t].pc = "build_load_response"
    /\ thr' = [thr EXCEPT ![t] = IdleThread]
    /\ op' = [op EXCEPT !.phase = "done",
                        !.resp = IF \E n \in {"1", "2", "3"} : LoadRosters(thr[t].req.Email)[n].exc
                                 THEN ExceptionResponse
                                 ELSE build_load_response(thr[t].req.Email, thr[t].account[1])]
    /\ UNCHANGED <<account_file, pokemon_file, raw_file, last_saved, n_saves, n_crashes, validate_password, pvars, cvars>>

\* The server process dies while a handler runs; the files stay as they are
Crash ==
    /\ n_crashes < MaxCrashes
    /\ \E t \in Threads : thr[t].pc # "idle"
    /\ thr' = [t \in Threads |-> IdleThread]
    /\ op' = [op EXCEPT !.phase = "crashed"]
    /\ n_crashes' = n_crashes + 1
    /\ UNCHANGED <<account_file, pokemon_file, raw_file, last_saved, n_saves, validate_password, pvars, cvars>>

\* ------------------------------------------------------------------------
\* The codec functions, each applied to the inputs below: encode, then decode
\* ------------------------------------------------------------------------

\* The integers 0..MaxInt are encoded one by one
MaxInt == 60

\* Beside them: the first and last value of three, four, eight, nine and ten digits
IntInputs ==
    0..MaxInt \cup {100, 999, 1000, 9999, 10000000, 99999999, 100000000, 999999999,
                    1000000000}

NoInput ==
    [kind |-> "", n |-> 0, suffix |-> <<>>, m |-> <<>>, roster |-> <<>>,
     current_save |-> <<>>, trainer_id |-> 0, blob |-> <<>>, i |-> 0]

\* What follows an encoded integer in the blob
Suffixes == {<<>>, <<"y">>, <<"y", "w", "x">>}

\* The largest number of pairs in a key-value mapping that is encoded
MaxPairs == 11

\* Keys and values of the short mappings: one, two, nine and ten digits
KVValues == {0, 7, 10, 999999999, 1000000000}

\* n pairs, the keys in descending order
PairsDown(n) == [j \in 1..n |-> [k |-> n - j, v |-> j * j]]

\* The empty mapping, one pair, two pairs, and mappings of up to MaxPairs pairs
KVInputs ==
    {<<>>}
    \cup {<<[k |-> a, v |-> b]>> : a \in KVValues, b \in KVValues}
    \cup {<<[k |-> x[1], v |-> x[2]], [k |-> x[2], v |-> x[1]]>> :
            x \in {y \in KVValues \X KVValues : y[1] > y[2]}}
    \cup {PairsDown(n) : n \in 1..MaxPairs}

\* The longest tag of a record that is encoded
MaxTag == 10

\* A tag of n characters
TagOf(n) == [j \in 1..n |-> IF j % 2 = 1 THEN "y" ELSE "B"]

\* Records of the rosters that are encoded: the fields of a capture, the tag
\* of every length up to MaxTag, each rarity, values of nine and ten digits.
SnapshotRecords ==
    {[default_pokemon(3) EXCEPT !.tag = TagOf(n), !.shiny = n % 3, !.position = n] :
        n \in 0..MaxTag}
    \cup {[default_pokemon(12) EXCEPT !.species = sp, !.experience = ex, !.level = 100,
                                      !.move2 = 45, !.moveSelected = 2, !.position = 0,
                                      !.tag = <<"B", "u">>] :
            sp \in {7, 999999999, 1000000000}, ex \in {0, 1000000000}}

\* The empty roster, every roster of one record, some of two
SnapshotInputs ==
    {<<>>}
    \cup {<<r>> : r \in SnapshotRecords}
    \cup {<<r, [default_pokemon(1) EXCEPT !.tag = <<"m">>]>> : r \in SnapshotRecords}
    \cup {<<[default_pokemon(1) EXCEPT !.tag = <<"m">>], r>> : r \in SnapshotRecords}

CodecInputs ==
    {[NoInput EXCEPT !.kind = "int", !.n = n] : n \in IntInputs}
    \cup {[NoInput EXCEPT !.kind = k, !.n = n, !.suffix = x] :
            k \in {"single", "double"}, n \in IntInputs, x \in Suffixes}
    \cup {[NoInput EXCEPT !.kind = "kv", !.m = m] : m \in KVInputs}
    \cup {[NoInput EXCEPT !.kind = "snapshot", !.roster = r] : r \in SnapshotInputs}

\* The trainer ids 700 .. 700 + TrainerSpan are tried beside the limits
TrainerSpan == 20

\* The limits of the accepted range and their neighbours; with a character
\* sum of 1 the ids from 700 give products 9800, 9814, ..., 9996, 10010, ...
TrainerIDs == {0, 332, 333, 99999, 100000} \cup {700 + k : k \in 0..TrainerSpan}

\* 14 times the character c
Fourteen(c) == [k \in 1..14 |-> c]

\* Save tokens: 14 characters with sum 105, 364, 126, 1, 28, and 0 (all "0",
\* all upper case); 13, 15 and 0 characters
SaveTokens ==
    {<<"a", "b", "c", "d", "e", "f", "g", "h", "i", "j", "k", "l", "m", "n">>,
     Fourteen("z"), Fourteen("9"), Fourteen("0"), Fourteen("A"),
     [Fourteen("0") EXCEPT ![1] = "a"],
     <<"a", "-", "b", "_", "c", ".", "d", " ", "e", "!", "f", "?", "g", "#">>,
     SubSeq(Fourteen("z"), 1, 13), Fourteen("z") \o <<"z">>, <<>>}

ProfileInputs ==
    {[NoInput EXCEPT !.kind = "profile", !.current_save = s, !.trainer_id = t] :
        s \in SaveTokens, t \in TrainerIDs}

ProfileInit ==
    \E inp \in ProfileInputs :
        c_pc = "input" /\ c_in = inp /\ c_enc = <<>> /\ c_dec = <<>>

\* profile_id = compute_profile_id(current_save, trainer_id)
ComputeProfileID ==
    /\ c_pc = "input"
    /\ c_in.kind = "profile"
    /\ c_dec' = compute_profile_id(c_in.current_save, c_in.trainer_id)
    /\ c_pc' = "done"
    /\ UNCHANGED <<c_in, c_enc>>

CodecOff == c_pc = "off" /\ c_in = NoInput /\ c_enc = <<>> /\ c_dec = <<>>

CodecInit ==
    \E inp \in CodecInputs :
        c_pc = "input" /\ c_in = inp /\ c_enc = <<>> /\ c_dec = <<>>

EncodeInt ==
    /\ c_pc = "input"
    /\ c_in.kind = "int"
    /\ c_enc' = encode_int(c_in.n)
    /\ c_pc' = "encoded"
    /\ UNCHANGED <<c_in, c_dec>>

DecodeInt ==
    /\ c_pc = "encoded"
    /\ c_in.kind = "int"
    /\ c_dec' = decode_int_string(c_enc)
    /\ c_pc' = "decoded"
    /\ UNCHANGED <<c_in, c_enc>>

EncodeWithLength ==
    /\ c_pc = "input"
    /\ c_in.kind = "single"
    /\ c_enc' = encode_with_length(c_in.n) \o c_in.suffix
    /\ c_pc' = "encoded"
    /\ UNCHANGED <<c_in, c_dec>>

ReadInt ==
    /\ c_pc = "encoded"
    /\ c_in.kind = "single"
    /\ c_dec' = read_int(c_enc, 0)
    /\ c_pc' = "decoded"
    /\ UNCHANGED <<c_in, c_enc>>

EncodeWithDoubleLength ==
    /\ c_pc = "input"
    /\ c_in.kind = "double"
    /\ c_enc' = encode_with_double_length(c_in.n) \o c_in.suffix
    /\ c_pc' = "encoded"
    /\ UNCHANGED <<c_in, c_dec>>

ReadInt2 ==
    /\ c_pc = "encoded"
    /\ c_in.kind = "double"
    /\ c_dec' = read_int2(c_enc, 0)
    /\ c_pc' = "decoded"
    /\ UNCHANGED <<c_in, c_enc>>

EncodeKV ==
    /\ c_pc = "input"
    /\ c_in.kind = "kv"
    /\ c_enc' = encode_kv_blob(c_in.m)
    /\ c_pc' = "encoded"
    /\ UNCHANGED <<c_in, c_dec>>

ParseKV ==
    /\ c_pc = "encoded"
    /\ c_in.kind = "kv"
    /\ c_dec' = parse_kv_blob(c_enc)
    /\ c_pc' = "decoded"
    /\ UNCHANGED <<c_in, c_enc>>

EncodeSnapshot ==
    /\ c_pc = "input"
    /\ c_in.kind = "snapshot"
    /\ c_enc' = encode_pokemon_snapshot(c_in.roster)
    /\ c_pc' = "encoded"
    /\ UNCHANGED <<c_in, c_dec>>

DecodeSnapshot ==
    /\ c_pc = "encoded"
    /\ c_in.kind = "snapshot"
    /\ c_dec' = DecodeSnapshotBlob(c_enc)
    /\ c_pc' = "decoded"
    /\ UNCHANGED <<c_in, c_enc>>

\* ------------------------------------------------------------------------
\* Specifications
\* ------------------------------------------------------------------------

Init == ServerInit /\ ParserOff /\ CodecOff

Next ==
    \/ \E t \in Threads, req \in SaveRequests : SaveBegin(t, req)
    \/ \E t \in Threads, req \in LoadRequests : LoadBegin(t, req)
    \/ \E t \in Threads : OpenAccount(t)
    \/ \E t \in Threads : DumpAccount(t)
    \/ \E t \in Threads : OpenPokemon(t)
    \/ \E t \in Threads : DumpPokemon(t)
    \/ \E t \in Threads : LoadRespond(t)

\* The server driven by requests
Spec == Init /\ [][Next]_vars

NextCrash == Next \/ Crash

\* The server driven by requests, with crashes of the process
SpecCrash == Init /\ [][NextCrash]_vars

InitValidate == ServerInitValidating /\ ParserOff /\ CodecOff

NextValidate == Next \/ \E t \in Threads, req \in OtherPassLoads : LoadBegin(t, req)

\* Two more addresses: one that differs from a@b.c and has the same file
\* names, one that has file names of its own
SameFilesEmail == <<"a", "_", "a", "t", "_", "b", ".", "c">>

OwnFilesEmail == <<"d", "@", "b", ".", "c">>

AllEmails == Emails \cup {SameFilesEmail, OwnFilesEmail}

\* Loads with the two addresses
OtherEmailLoads ==
    {[Action |-> "loadAccount", Email |-> e, Pass |-> "p", num |-> "1", newGame |-> "no",
      extra |-> <<>>, whole |-> TRUE, scal |-> NoScalars] :
        e \in {SameFilesEmail, OwnFilesEmail}}

\* A save of one capture to slot 1 with the address of its own files
OtherEmailSaves ==
    {SaveRequest(OwnFilesEmail, "p", "1", "no",
                 [extra |-> EncodeDelta(<<[myID |-> 0,
                                          changes |-> <<NeedCaptured(4, 2, 180, <<>>)>>]>>),
                  whole |-> TRUE], NoScalars)}

InitIsolation ==
    /\ StoreOf({safe_email(e) : e \in AllEmails})
    /\ validate_password = VALIDATE_PASSWORD
    /\ ParserOff
    /\ CodecOff

NextIsolation ==
    \/ Next
    \/ \E t \in Threads, req \in OtherEmailLoads : LoadBegin(t, req)
    \/ \E t \in Threads, req \in OtherEmailSaves : SaveBegin(t, req)

\* The server driven by requests that supply three addresses
SpecIsolation == InitIsolation /\ [][NextIsolation]_vars

\* The server with password validation on, driven by requests that supply
\* two different passwords
SpecValidate == InitValidate /\ [][NextValidate]_vars

InitParse == ServerInit /\ ParserInit /\ CodecOff

NextParse == ParserNext /\ UNCHANGED <<svars, cvars>>

\* parse_delta_save run on the input families
SpecParse == InitParse /\ [][NextParse]_vars

InitCodec == ServerInit /\ ParserOff /\ CodecInit

InitProfile == ServerInit /\ ParserOff /\ ProfileInit

NextProfile == ComputeProfileID /\ UNCHANGED <<pvars, svars>>

\* compute_profile_id run on the tokens and trainer ids
SpecProfile == InitProfile /\ [][NextProfile]_vars

NextCodec ==
    \/ EncodeInt /\ UNCHANGED <<pvars, svars>>
    \/ DecodeInt /\ UNCHANGED <<pvars, svars>>
    \/ EncodeWithLength /\ UNCHANGED <<pvars, svars>>
    \/ ReadInt /\ UNCHANGED <<pvars, svars>>
    \/ EncodeWithDoubleLength /\ UNCHANGED <<pvars, svars>>
    \/ ReadInt2 /\ UNCHANGED <<pvars, svars>>
    \/ EncodeKV /\ UNCHANGED <<pvars, svars>>
    \/ ParseKV /\ UNCHANGED <<pvars, svars>>
    \/ EncodeSnapshot /\ UNCHANGED <<pvars, svars>>
    \/ DecodeSnapshot /\ UNCHANGED <<pvars, svars>>

\* The codec functions run on the input families
SpecCodec == InitCodec /\ [][NextCodec]_vars

\* ------------------------------------------------------------------------
\* The readers called on any blob at any cursor
\* ------------------------------------------------------------------------

\* The longest blob that is read
MaxBlob == 4

\* The letters of the blobs: the digits 0, 1, 2 and a character that is not
\* in LETTER_LIST
BlobLetters == {"m", "y", "w", "x"}

Blobs == UNION {[1..n -> BlobLetters] : n \in 0..MaxBlob}

\* Every blob, every cursor in it and the one at its end, each reader
ReadInputs ==
    {[NoInput EXCEPT !.kind = x[1], !.blob = x[2], !.i = x[3]] :
        x \in {y \in {"read_int", "read_int2", "read_string"} \X Blobs \X (0..MaxBlob) :
                  y[3] <= Len(y[2])}}

ReadInit ==
    \E inp \in ReadInputs :
        c_pc = "input" /\ c_in = inp /\ c_enc = <<>> /\ c_dec = <<>>

\* value, i = read_int(blob, i)
ReadIntAt ==
    /\ c_pc = "input"
    /\ c_in.kind = "read_int"
    /\ c_dec' = read_int(c_in.blob, c_in.i)
    /\ c_pc' = "decoded"
    /\ UNCHANGED <<c_in, c_enc>>

\* value, i = read_int2(blob, i)
ReadInt2At ==
    /\ c_pc = "input"
    /\ c_in.kind = "read_int2"
    /\ c_dec' = read_int2(c_in.blob, c_in.i)
    /\ c_pc' = "decoded"
    /\ UNCHANGED <<c_in, c_enc>>

\* value, i = read_string(blob, i)
ReadStringAt ==
    /\ c_pc = "input"
    /\ c_in.kind = "read_string"
    /\ c_dec' = read_string(c_in.blob, c_in.i)
    /\ c_pc' = "decoded"
    /\ UNCHANGED <<c_in, c_enc>>

InitRead == ServerInit /\ ParserOff /\ ReadInit

NextRead ==
    \/ ReadIntAt /\ UNCHANGED <<pvars, svars>>
    \/ ReadInt2At /\ UNCHANGED <<pvars, svars>>
    \/ ReadStringAt /\ UNCHANGED <<pvars, svars>>

\* read_int, read_int2 and read_string run on the blobs and cursors
SpecRead == InitRead /\ [][NextRead]_vars

\* ------------------------------------------------------------------------
\* parse_delta_save on any string
\* ------------------------------------------------------------------------

\* The longest string that is parsed after the four letters of an envelope
MaxBody == 6

\* 0, 1 and a character that is not in LETTER_LIST
BodyLetters == {"m", "y", "x"}

Bodies == UNION {[1..n -> BodyLetters] : n \in 0..MaxBody}

\* Whole deltas that take the branches of the entry loop: the empty entry,
\* the two skips, the posChange that matches no record, a capture, a rekey
LoopDeltas ==
    {<<[myID |-> 1, changes |-> <<>>], [myID |-> 0, changes |-> <<NeedCaptured(4, 1, 151, <<>>)>>]>>,
     <<[myID |-> 0, changes |-> <<NeedLevel(50), NeedTrade(9, 4)>>],
       [myID |-> 1, changes |-> <<NeedLevel(9)>>]>>,
     <<[myID |-> 2, changes |-> <<NeedExp(1234), NeedTag(<<"a", "b">>)>>]>>,
     <<[myID |-> 7, changes |-> <<PosChange(3), NeedLevel(9)>>]>>,
     <<[myID |-> 7, changes |-> <<PosChange(1)>>]>>}

\* Strings of fewer than four characters, every string after the envelope of
\* an empty delta, the whole deltas above
AnyInputs ==
    {[entries |-> <<>>, extra |-> b, whole |-> FALSE] : b \in {<<>>, <<"y">>, <<"y", "x", "m">>}}
    \cup {[entries |-> <<>>, extra |-> <<"y", "w", "y", "m">> \o b, whole |-> FALSE] :
            b \in Bodies}
    \cup {[entries |-> es, extra |-> EncodeDelta(es), whole |-> TRUE] : es \in LoopDeltas}

\* parse_delta_save(extra, existing_pokemon) is called
ParseCall ==
    /\ p_pc = "off"
    /\ \E inp \in AnyInputs, r \in RosterSeeds :
          /\ p_pc' = "start"
          /\ p_entries' = inp.entries
          /\ p_whole' = inp.whole
          /\ p_extra' = inp.extra
          /\ p_existing' = r
    /\ UNCHANGED <<p_i, p_d, p_out>>

NextParseAny == (ParseCall \/ ParserNext) /\ UNCHANGED <<svars, cvars>>

\* ENABLED <<ParseLoop>>_vars: the iteration moves the cursor, changes the
\* dict or leaves the loop
LoopStepChanges ==
    /\ p_pc = "loop"
    /\ \/ ParseEntry(p_extra, p_i, p_d).i # p_i
       \/ ParseEntry(p_extra, p_i, p_d).d # p_d
       \/ ParseEntry(p_extra, p_i, p_d).brk
       \/ ParseEntry(p_extra, p_i, p_d).i >= Len(p_extra)

\* WF_vars(ParseLoop), with its ENABLED written as the state predicate above
LoopRunsOn ==
    []<>(~LoopStepChanges) \/ []<><<ParseLoop /\ UNCHANGED <<svars, cvars>>>>_vars

\* A call of parse_delta_save runs on: the interpreter takes the call, the
\* next iteration and the return whenever there is one to take
SpecParseLive ==
    /\ Init /\ [][NextParseAny]_vars
    /\ WF_vars(ParseCall /\ UNCHANGED <<svars, cvars>>)
    /\ WF_vars(ParseStart /\ UNCHANGED <<svars, cvars>>)
    /\ LoopRunsOn
    /\ WF_vars(ParseReturn /\ UNCHANGED <<svars, cvars>>)

\* ------------------------------------------------------------------------
\* Properties of parse_delta_save (checked under SpecParse)
\* ------------------------------------------------------------------------

\* The parser is about to read entry k of a whole delta, at that entry's
\* first character.
InSyncAt(k) ==
    /\ p_pc = "loop"
    /\ p_whole
    /\ k \in 1..Len(p_entries)
    \* = EntryAt(p_entries, k), p_extra being the whole encoding of p_entries
    /\ p_i = Len(p_extra) - Len(EncodeEntries(SubSeq(p_entries, k, Len(p_entries))))

RosterIDs(roster) == {roster[n].myID : n \in 1..Len(roster)}

MaxOf(S) == IF S = {} THEN 0 ELSE CHOOSE m \in S : \A k \in S : k <= m

\* myID = 0 and the first change is needCaptured
CaptureEntry(e) == e.myID = 0 /\ e.changes # <<>> /\ e.changes[1].t = 1

\* myID = 0 and the first change is not needCaptured
InvalidEntry(e) == e.myID = 0 /\ e.changes # <<>> /\ e.changes[1].t # 1

\* A non-zero myID that is not in the roster, first change neither
\* needCaptured nor posChange
UnknownEntryOf(e, d) ==
    /\ e.myID # 0
    /\ ~DictHas(d, e.myID)
    /\ e.changes # <<>>
    /\ e.changes[1].t \notin {1, 8}

\* A non-zero myID that is not in the roster, first change posChange
RekeyEntryOf(e, d) ==
    /\ e.myID # 0
    /\ ~DictHas(d, e.myID)
    /\ e.changes # <<>>
    /\ e.changes[1].t = 8

\* Record n of d has position = p or myID = p
MatchesPosition(d, n, p) == d[n].v.position = p \/ d[n].k = p

\* One capture entry: one more record, keyed max + 1, the others as they were
CaptureStep ==
    \A k \in 1..Len(p_entries) :
        (InSyncAt(k) /\ CaptureEntry(p_entries[k])) =>
            /\ Len(p_d') = Len(p_d) + 1
            /\ DictKeys(p_d') = DictKeys(p_d) \cup {MaxOf(DictKeys(p_d)) + 1}
            /\ \A n \in 1..Len(p_d) : p_d'[n] = p_d[n]
            /\ p_d'[Len(p_d')].v.myID = MaxOf(DictKeys(p_d)) + 1

\* A delta of capture entries only: k records more, k new myIDs; twice, 2k
CaptureDelta ==
    (/\ p_pc' = "done"
     /\ p_whole
     /\ \A k \in 1..Len(p_entries) : CaptureEntry(p_entries[k])) =>
        /\ Len(p_out') = Len(p_existing) + Len(p_entries)
        /\ RosterIDs(p_out') =
              RosterIDs(p_existing)
              \cup ((MaxOf(RosterIDs(p_existing)) + 1)
                     ..(MaxOf(RosterIDs(p_existing)) + Len(p_entries)))
        /\ (p_existing = <<>> =>
              Len(parse_delta_save(p_extra, p_out')) = 2 * Len(p_entries))

\* C2: every entry with myID = 0 whose first change is needCaptured creates
\* one new record whose myID is the largest myID in the roster plus one (1 for
\* an empty roster), records created earlier in the same delta included; a
\* delta of k such entries adds exactly k records with k distinct new myIDs,
\* and applied twice from the empty roster it yields 2k records.
CaptureAllocatesNextMyID == [][CaptureStep /\ CaptureDelta]_vars

\* C2 witness: a delta of two capture entries has run on the empty roster
\* and returned two records.
TwoCapturesParsed ==
    /\ p_pc = "done"
    /\ p_whole
    /\ Len(p_entries) = 2
    /\ \A k \in 1..2 : CaptureEntry(p_entries[k])
    /\ p_existing = <<>>
    /\ RosterIDs(p_out) = {1, 2}

\* C6: an entry with myID = 0 whose first change is not needCaptured is
\* skipped whatever change types it holds: the roster is as before and the
\* cursor is at the first character of the next entry.
InvalidEntrySkipped ==
    [][\A k \in 1..Len(p_entries) :
          (InSyncAt(k) /\ InvalidEntry(p_entries[k])) =>
              (p_d' = p_d /\ p_i' = EntryAt(p_entries, k + 1))]_vars

\* C7: an entry with a non-zero myID that is not in the roster and whose
\* first change is neither needCaptured nor posChange changes no record, and
\* the entries after it are read from their first character.
UnknownEntryIsNoOp ==
    [][\A k \in 1..Len(p_entries) :
          (InSyncAt(k) /\ UnknownEntryOf(p_entries[k], p_d)) =>
              (p_d' = p_d /\ p_i' = EntryAt(p_entries, k + 1))]_vars

\* What C8 says of one entry e rekeying record n of d into d2; exact says
\* whether the record's fields other than myID and position are as before.
RekeyedAs(d, d2, e, n, exact) ==
    /\ MatchesPosition(d, n, e.changes[1].f[1])
    /\ Len(d2) = Len(d)
    /\ ~DictHas(d2, d[n].k)
    /\ DictHas(d2, e.myID)
    /\ DictGet(d2, e.myID).myID = e.myID
    /\ \A m \in 1..Len(d) : m # n => \E j \in 1..Len(d2) : d2[j] = d[m]
    /\ exact => DictGet(d2, e.myID) =
                   [d[n].v EXCEPT !.myID = e.myID, !.position = e.changes[1].f[1]]

\* Some record has position = newPosition or myID = newPosition
SomeMatch(d, e) == \E n \in 1..Len(d) : MatchesPosition(d, n, e.changes[1].f[1])

\* C8 as stated: after a posChange entry for an unknown non-zero myID that
\* matches a record, the roster has as many records, the matched record's old
\* myID is gone, the record has the incoming myID and position = newPosition,
\* all its other fields are unchanged and no other record is modified.
RekeyKeepsOtherFields ==
    [][\A k \in 1..Len(p_entries) :
          (/\ InSyncAt(k)
           /\ RekeyEntryOf(p_entries[k], p_d)
           /\ SomeMatch(p_d, p_entries[k])) =>
              \E n \in 1..Len(p_d) : RekeyedAs(p_d, p_d', p_entries[k], n, TRUE)]_vars

\* C8 amended: the same, except that position = newPosition and the other
\* fields are unchanged only when posChange is the entry's only change; the
\* changes that follow it in the entry are applied to the rekeyed record.
RekeyThenApply ==
    [][\A k \in 1..Len(p_entries) :
          (/\ InSyncAt(k)
           /\ RekeyEntryOf(p_entries[k], p_d)
           /\ SomeMatch(p_d, p_entries[k])) =>
              \E n \in 1..Len(p_d) :
                  RekeyedAs(p_d, p_d', p_entries[k], n, Len(p_entries[k].changes) = 1)]_vars

\* C8 witness: a delta whose one entry is a lone posChange has been applied,
\* the record that had myID 1 is now under myID 7, at the same index.
RekeyedOneToSeven ==
    /\ p_pc = "done"
    /\ p_whole
    /\ p_entries = <<[myID |-> 7, changes |-> <<PosChange(1)>>]>>
    /\ 1 \in RosterIDs(p_existing)
    /\ 1 \notin RosterIDs(p_out)
    /\ 7 \in RosterIDs(p_out)

\* C9 as stated: the returned roster is in ascending order of position, and
\* records with equal position are in ascending order of myID.
SortedByPositionThenMyID ==
    (p_pc = "done" /\ Len(p_extra) >= 4) =>
        \A a, b \in 1..Len(p_out) :
            a < b => \/ p_out[a].position < p_out[b].position
                     \/ /\ p_out[a].position = p_out[b].position
                        /\ p_out[a].myID < p_out[b].myID

\* C9 amended: the returned roster is in ascending order of position, and
\* records with equal position are in the order they had before the sort:
\* the order of their keys in the parser's dict.
SortedByPositionStable ==
    (p_pc = "done" /\ Len(p_extra) >= 4) =>
        \A a, b \in 1..Len(p_out) :
            a < b => \/ p_out[a].position < p_out[b].position
                     \/ /\ p_out[a].position = p_out[b].position
                        /\ DictIndex(p_d, p_out[a].myID) < DictIndex(p_d, p_out[b].myID)

\* C9 witness: the sort has moved a record: the dict's first record is not
\* the first of the returned roster.
SortReordered ==
    /\ p_pc = "done"
    /\ Len(p_extra) >= 4
    /\ Len(p_out) >= 2
    /\ p_d[1].k # p_out[1].myID

\* ------------------------------------------------------------------------
\* Properties of the server (checked under Spec and SpecCrash)
\* ------------------------------------------------------------------------

\* The roster a file holds; a file that does not exist reads as []
RosterIn(file) == IF file.st = "ok" THEN file.c[1] ELSE <<>>

\* Pairwise distinct myIDs, none of them 0
DistinctNonZeroIDs(roster) ==
    /\ \A a, b \in 1..Len(roster) : a # b => roster[a].myID # roster[b].myID
    /\ \A a \in 1..Len(roster) : roster[a].myID # 0

\* C1: from the empty store, after any sequence of saveAccount, loadAccount
\* and createAccount requests, every persisted roster has pairwise distinct
\* myIDs and no record with myID = 0.
PersistedMyIDsUnique ==
    \A se \in SafeEmails, n \in NumValues :
        pokemon_file[se][n].st = "ok" => DistinctNonZeroIDs(pokemon_file[se][n].c[1])

\* C1 witness: a persisted roster of two records, one of them rekeyed to
\* myID 7 by a posChange.
RekeyedRosterPersisted ==
    \E se \in SafeEmails, n \in NumValues :
        /\ pokemon_file[se][n].st = "ok"
        /\ Len(pokemon_file[se][n].c[1]) = 1
        /\ pokemon_file[se][n].c[1][1].myID = 7
        /\ pokemon_file[se][n].c[1][1].species = 1

\* C3: a saveAccount whose delta is cut off part-way leaves the slot's
\* persisted roster as it was before the save, and answers Result=Success.
TruncatedDeltaKeepsRoster ==
    (/\ op.phase = "done"
     /\ op.req.Action = "saveAccount"
     /\ ~op.req.whole
     /\ op.req.newGame = "no") =>
        /\ op.resp.kind = "save"
        /\ op.resp.Result = "Success"
        /\ RosterIn(pokemon_file[safe_email(op.req.Email)][op.req.num])
              = RosterIn(op.pre_pokemon)

\* A handler between its read of the files and the end of its writes
Busy(t) == thr[t].pc # "idle"

\* The files thread t works on are as t read them, but for t's own writes
FilesAsRead(t) ==
    /\ thr[t].pc = "open_account" =>
          /\ account_file[safe_email(thr[t].req.Email)] = thr[t].pre_account
          /\ pokemon_file[safe_email(thr[t].req.Email)][WriteSlot(thr[t].req)]
                = thr[t].pre_pokemon
    /\ thr[t].pc \in {"dump_account", "open_pokemon"} =>
          pokemon_file[safe_email(thr[t].req.Email)][WriteSlot(thr[t].req)]
             = thr[t].pre_pokemon
    /\ thr[t].pc = "build_load_response" =>
          account_file[safe_email(thr[t].req.Email)] = FileOf(thr[t].account[1])

\* Every roster file written has its slot in the account: no save's update
\* of the account was overwritten by a save that had read the account before
NoLostUpdate ==
    \A se \in SafeEmails, n \in NumValues :
        (/\ \A t \in Threads : ~Busy(t)
         /\ pokemon_file[se][n].st = "ok") =>
            /\ account_file[se].st = "ok"
            /\ n \in DOMAIN account_file[se].c[1].slots

\* C4: the load-modify-save cycles of two requests against the same email
\* never interleave: a request reads the files only after the writes of the
\* request before it have completed, so the persisted state is that of a
\* serial order and no save's update is lost.
CyclesNeverInterleave ==
    /\ \A t, u \in Threads :
          (Busy(t) /\ Busy(u) /\ thr[t].req.Email = thr[u].req.Email) => t = u
    /\ \A t \in Threads : FilesAsRead(t)
    /\ NoLostUpdate

\* C4 witness: a second save has read the account the first one wrote and is
\* about to write.
SecondSaveAfterFirst ==
    \E t \in Threads :
        /\ thr[t].pc = "open_account"
        /\ n_saves = 2
        /\ thr[t].pre_account.st = "ok"
        /\ Cardinality(DOMAIN thr[t].account[1].slots) = 2

\* C5: when the handling of a saveAccount is abandoned, the account file and
\* the slot's roster file are both as before the request or both as after
\* it, and neither is empty or partly written.
AbandonedSaveIsAtomic ==
    (op.phase = "crashed" /\ op.req.Action = "saveAccount") =>
        /\ account_file[safe_email(op.req.Email)].st # "torn"
        /\ pokemon_file[safe_email(op.req.Email)][op.req.num].st # "torn"
        /\ \/ /\ account_file[safe_email(op.req.Email)] = op.pre_account
              /\ pokemon_file[safe_email(op.req.Email)][op.req.num] = op.pre_pokemon
           \/ /\ account_file[safe_email(op.req.Email)] = FileOf(op.post_account[1])
              /\ pokemon_file[safe_email(op.req.Email)][op.req.num]
                    = FileOf(op.post_pokemon)

\* C10: a load reports, for each slot S of 1, 2, 3, PCS = the number of
\* records of the roster the latest save to S wrote (0 when there was none)
\* and pSextra = the snapshot encoding of that roster.
LoadReportsLastSaved ==
    (op.phase = "done" /\ op.resp.kind = "load") =>
        \A S \in {"1", "2", "3"} :
            /\ op.resp.PC[S] = Len(last_saved[safe_email(op.req.Email)][S])
            /\ op.resp.pextra[S] =
                  encode_pokemon_snapshot(last_saved[safe_email(op.req.Email)][S])

\* C10 witness: after one save, a first capture against the empty slot 1, a
\* load has answered PC1 = 1, with slot 2 empty.
LoadAfterFirstCapture ==
    /\ op.phase = "done"
    /\ op.resp.kind = "load"
    /\ n_saves = 1
    /\ op.resp.PC["1"] = 1
    /\ op.resp.PC["2"] = 0
    /\ op.resp.pextra["2"] = <<"y", "q", "y", "m">>
    /\ Len(op.resp.pextra["1"]) > 4

\* The <<position, myID>> pairs of a roster, in roster order
PairsOf(roster) == [n \in 1..Len(roster) |-> <<roster[n].position, roster[n].myID>>]

\* C11: every successful saveAccount response is Result=Success, newSave =
\* the account's current_save, and exactly one newPokePos pair
\* <position, myID> for each record of the persisted roster, in roster order,
\* and nothing else; every myID the save allocated is in one of the pairs.
SaveResponseListsRoster ==
    (op.phase = "done" /\ op.req.Action = "saveAccount" /\ op.resp.kind = "save") =>
        /\ DOMAIN op.resp = {"kind", "Result", "newSave", "newPokePos"}
        /\ op.resp.Result = "Success"
        /\ op.resp.newSave = account_file[safe_email(op.req.Email)].c[1].current_save
        /\ op.resp.newPokePos =
              PairsOf(RosterIn(pokemon_file[safe_email(op.req.Email)][op.req.num]))
        /\ \A id \in RosterIDs(RosterIn(pokemon_file[safe_email(op.req.Email)][op.req.num]))
                       \ RosterIDs(RosterIn(op.pre_pokemon)) :
              \E n \in 1..Len(op.resp.newPokePos) : op.resp.newPokePos[n][2] = id

\* C11 witness: a save has answered with two pairs; the second record got
\* its myID, 2, from the server in this save, and sits at position 2.
SaveAnsweredTwoPairs ==
    /\ op.phase = "done"
    /\ op.resp.kind = "save"
    /\ Len(op.resp.newPokePos) = 2
    /\ RosterIDs(RosterIn(op.pre_pokemon)) = {1}
    /\ \E n \in 1..2 : op.resp.newPokePos[n] = <<2, 2>>

\* The last save request the server has dumped for an e-mail address
LastSaveString(se) == raw_file[se].c[1]

\* C12: a save to slot S with newGame=yes persists for S the result of
\* applying the delta to an empty roster, whatever the slot held before; when
\* the last save was such a save with an empty delta, a load reports PCS = 0.
NewGameDiscardsRoster ==
    /\ (op.phase = "done" /\ op.req.Action = "saveAccount" /\ op.resp.kind = "save"
            /\ op.req.newGame = "yes") =>
          RosterIn(pokemon_file[safe_email(op.req.Email)][op.req.num])
              = parse_delta_save(op.req.extra, <<>>)
    /\ \A se \in SafeEmails :
          (op.phase = "done" /\ op.resp.kind = "load" /\ safe_email(op.req.Email) = se
              /\ raw_file[se].st = "ok"
              /\ LastSaveString(se).newGame = "yes" /\ LastSaveString(se).extra = <<>>) =>
             op.resp.PC[LastSaveString(se).num] = 0

\* C12 witness: a new-game save with an empty delta has completed on a slot
\* that held a record, and the slot's roster file is now empty.
NewGameClearedARoster ==
    /\ op.phase = "done"
    /\ op.req.Action = "saveAccount"
    /\ op.resp.kind = "save"
    /\ op.req.newGame = "yes"
    /\ op.req.extra = <<>>
    /\ Len(RosterIn(op.pre_pokemon)) >= 1
    /\ RosterIn(pokemon_file[safe_email(op.req.Email)][op.req.num]) = <<>>

\* A load that follows a new-game save with an empty delta has answered
LoadAfterNewGame ==
    /\ op.phase = "done"
    /\ op.resp.kind = "load"
    /\ raw_file[safe_email(op.req.Email)].st = "ok"
    /\ LastSaveString(safe_email(op.req.Email)).newGame = "yes"
    /\ LastSaveString(safe_email(op.req.Email)).extra = <<>>
    /\ op.resp.PC["1"] = 0

\* The slots of an account file other than slot s, with their scalar fields
OtherSlots(file, s) ==
    IF file.st = "ok"
    THEN [n \in DOMAIN file.c[1].slots \ {s} |-> file.c[1].slots[n]]
    ELSE <<>>

\* C13: no step of a saveAccount request for slot S changes the roster file of
\* another slot, and whenever the account file is whole during or after the
\* request the other slots are the ones the account had before it, with the
\* same nickname, avatar, badges, money, version, advanced, advanced_a,
\* classic and challenge.
SaveLeavesOtherSlots ==
    [][op'.req.Action = "saveAccount" =>
          /\ \A n \in NumValues \ {op'.req.num} :
                pokemon_file'[safe_email(op'.req.Email)][n]
                    = pokemon_file[safe_email(op'.req.Email)][n]
          /\ account_file'[safe_email(op'.req.Email)].st = "ok" =>
                OtherSlots(account_file'[safe_email(op'.req.Email)], op'.req.num)
                    = OtherSlots(op'.pre_account, op'.req.num)]_vars

\* C13 witness: a save that sent its scalars to slot 3 has completed while
\* slot 1 holds a roster and its own scalars.
SavedSlotThreeBesideSlotOne ==
    /\ op.phase = "done"
    /\ op.req.Action = "saveAccount"
    /\ op.resp.kind = "save"
    /\ op.req.num = "3"
    /\ Len(RosterIn(pokemon_file[safe_email(op.req.Email)]["1"])) >= 1
    /\ account_file[safe_email(op.req.Email)].c[1].slots["1"].money = <<50>>
    /\ account_file[safe_email(op.req.Email)].c[1].slots["3"].money = <<120>>

\* The trainer id and save id stored in an account file
IdentityOf(file) ==
    [trainer_id |-> file.c[1].trainer_id, current_save |-> file.c[1].current_save]

\* C14: an account file that exists never becomes absent; its trainer_id and
\* current_save are the same after every step, and the same as before the
\* request whenever the file is whole; a load response carries CurrentSave
\* and newSave equal to the stored current_save, a save response newSave.
AccountIdentityStable ==
    [][/\ \A se \in SafeEmails :
            /\ account_file[se].st # "absent" => account_file'[se].st # "absent"
            /\ (account_file[se].st = "ok" /\ account_file'[se].st = "ok") =>
                   IdentityOf(account_file'[se]) = IdentityOf(account_file[se])
       /\ (op'.phase # "none" /\ op'.pre_account.st = "ok"
              /\ account_file'[safe_email(op'.req.Email)].st = "ok") =>
             IdentityOf(account_file'[safe_email(op'.req.Email)]) = IdentityOf(op'.pre_account)
       /\ (op'.phase = "done" /\ op'.resp.kind = "load") =>
             /\ op'.resp.CurrentSave
                    = account_file'[safe_email(op'.req.Email)].c[1].current_save
             /\ op'.resp.newSave = op'.resp.CurrentSave
       /\ (op'.phase = "done" /\ op'.resp.kind = "save") =>
             op'.resp.newSave = account_file'[safe_email(op'.req.Email)].c[1].current_save
      ]_vars

\* C14 witness: an account that existed before it has been saved to a second
\* time, and the response carries the save id the account had before.
SecondSaveEchoesIdentity ==
    /\ op.phase = "done"
    /\ op.resp.kind = "save"
    /\ n_saves = 2
    /\ op.pre_account.st = "ok"
    /\ op.resp.newSave = op.pre_account.c[1].current_save
    /\ op.pre_account.c[1].trainer_id = 99999

\* C15: every request that has been handled has a response body with a
\* Result key; no exception has left the handler.
NoExceptionEscapes ==
    op.phase = "done" => (op.resp.kind # "exception" /\ "Result" \in DOMAIN op.resp)

\* ------------------------------------------------------------------------
\* Properties of the codec functions (checked under SpecCodec)
\* ------------------------------------------------------------------------

\* C16: for every integer n >= 0, decode_int_string(encode_int(n)) = n, and
\* encode_int(0) is exactly one letter.
DecodeInvertsEncode ==
    /\ (c_pc = "decoded" /\ c_in.kind = "int") => c_dec = c_in.n
    /\ (c_pc \in {"encoded", "decoded"} /\ c_in.kind = "int" /\ c_in.n = 0) =>
           Len(c_enc) = 1

\* C16 witness: 1000, whose encoding has four letters, three of them the
\* letter of the digit 0, has been encoded and decoded.
ThousandDecoded ==
    /\ c_pc = "decoded"
    /\ c_in.kind = "int"
    /\ c_in.n = 1000
    /\ c_enc = <<"y", "m", "m", "m">>
    /\ c_dec = 1000

\* C17: for every integer n >= 0 and every suffix, read_int at cursor 0 of
\* encode_with_length(n) followed by the suffix returns n and the length of
\* encode_with_length(n) as the cursor; read_int2 does the same with
\* encode_with_double_length(n).
ReaderInvertsLengthPrefix ==
    /\ (c_pc = "decoded" /\ c_in.kind = "single") =>
           c_dec = <<c_in.n, Len(encode_with_length(c_in.n))>>
    /\ (c_pc = "decoded" /\ c_in.kind = "double") =>
           c_dec = <<c_in.n, Len(encode_with_double_length(c_in.n))>>

\* n has at most nine digits: one letter can give the length of its encoding
AtMostNineDigits(n) == Len(encode_int(n)) < Len(LETTER_LIST)

\* C17 (amended): for every integer n of at most nine digits and every
\* suffix, read_int at cursor 0 of encode_with_length(n) followed by the
\* suffix returns n and the length of encode_with_length(n) as the cursor; for
\* every integer n >= 0, read_int2 does the same with
\* encode_with_double_length(n).
ReaderInvertsLengthPrefixToNineDigits ==
    /\ (c_pc = "decoded" /\ c_in.kind = "single" /\ AtMostNineDigits(c_in.n)) =>
           c_dec = <<c_in.n, Len(encode_with_length(c_in.n))>>
    /\ (c_pc = "decoded" /\ c_in.kind = "double") =>
           c_dec = <<c_in.n, Len(encode_with_double_length(c_in.n))>>

\* C17 witness: an integer of nine digits, followed by three more
\* characters, has been read back in the single form with the cursor at 10.
NineDigitsReadBack ==
    /\ c_pc = "decoded"
    /\ c_in.kind = "single"
    /\ Len(encode_int(c_in.n)) = Len(LETTER_LIST) - 1
    /\ c_in.suffix = <<"y", "w", "x">>
    /\ c_dec = <<c_in.n, Len(LETTER_LIST)>>

\* An integer of ten digits has been read back in the double form
TenDigitsReadBackDouble ==
    /\ c_pc = "decoded"
    /\ c_in.kind = "double"
    /\ ~AtMostNineDigits(c_in.n)
    /\ c_dec = <<c_in.n, Len(encode_with_double_length(c_in.n))>>

\* A dict as the set of its items: two dicts are equal when these are
ItemsOf(d) == {<<d[n].k, d[n].v>> : n \in 1..Len(d)}

\* C18: for every mapping m from non-negative integers to non-negative
\* integers, the empty one and those of ten or more entries included,
\* parse_kv_blob(encode_kv_blob(m)) = m.
ParseKVInvertsEncodeKV ==
    (c_pc = "decoded" /\ c_in.kind = "kv") =>
        (Len(c_dec) = Len(c_in.m) /\ ItemsOf(c_dec) = ItemsOf(c_in.m))

\* C18 (amended): the same for every mapping whose keys and values have at
\* most nine digits.
ParseKVInvertsEncodeKVToNineDigits ==
    (c_pc = "decoded" /\ c_in.kind = "kv"
        /\ \A n \in 1..Len(c_in.m) :
              AtMostNineDigits(c_in.m[n].k) /\ AtMostNineDigits(c_in.m[n].v)) =>
        (Len(c_dec) = Len(c_in.m) /\ ItemsOf(c_dec) = ItemsOf(c_in.m))

\* C18 witness: a mapping of ten entries, whose count takes two letters, has
\* been encoded and parsed back.
TenPairsParsedBack ==
    /\ c_pc = "decoded"
    /\ c_in.kind = "kv"
    /\ Len(c_in.m) = 10
    /\ Len(c_dec) = 10
    /\ ItemsOf(c_dec) = ItemsOf(c_in.m)

\* The fields a decoded record has to share with the record it was encoded from
SameRecord(d, r) ==
    /\ d.species = r.species /\ d.experience = r.experience /\ d.level = r.level
    /\ d.move1 = r.move1 /\ d.move2 = r.move2 /\ d.move3 = r.move3 /\ d.move4 = r.move4
    /\ d.moveSelected = r.moveSelected /\ d.targetType = r.targetType
    /\ d.myID = r.myID /\ d.position = r.position /\ d.tag = r.tag

\* The decoding has as many records as the roster, each the same as the
\* roster's, and has consumed the whole string
DecodedAs(roster) ==
    /\ Len(c_dec.records) = Len(roster)
    /\ \A n \in 1..Len(roster) : SameRecord(c_dec.records[n], roster[n])
    /\ c_dec.i = Len(c_enc)

\* C19: for every roster R with tags of any length, decoding
\* encode_pokemon_snapshot(R) by the snapshot layout yields as many records as
\* R has, each with the species, experience, level, moves, moveSelected,
\* targetType, myID, position and tag of R's, and consumes the whole string.
SnapshotDecodesToRoster ==
    (c_pc = "decoded" /\ c_in.kind = "snapshot") => DecodedAs(c_in.roster)

\* The fields of r written in the single form have at most nine digits and
\* its tag at most nine characters
FitsSingleForm(r) ==
    /\ \A x \in {r.species, r.level, r.move1, r.move2, r.move3, r.move4,
                 r.moveSelected, r.targetType, r.position} : AtMostNineDigits(x)
    /\ Len(r.tag) < Len(LETTER_LIST)

\* C19 (amended): the same for every roster whose tags have at most nine
\* characters and whose single-prefixed fields have at most nine digits.
SnapshotDecodesToRosterToNine ==
    (c_pc = "decoded" /\ c_in.kind = "snapshot"
        /\ \A n \in 1..Len(c_in.roster) : FitsSingleForm(c_in.roster[n])) =>
        DecodedAs(c_in.roster)

\* C19 witness: a roster of two records, one of them with a tag of nine
\* characters, has been encoded and decoded to the same records.
NineCharacterTagDecoded ==
    /\ c_pc = "decoded"
    /\ c_in.kind = "snapshot"
    /\ Len(c_in.roster) = 2
    /\ \E n \in 1..2 : Len(c_in.roster[n].tag) = Len(LETTER_LIST) - 1
    /\ DecodedAs(c_in.roster)

\* ------------------------------------------------------------------------
\* Rarity (checked under SpecParse)
\* ------------------------------------------------------------------------

\* The entry is applied to a record: a capture, an entry for a myID of the
\* roster, or an entry that creates or rekeys the record of its myID
AppliedEntry(e, d) ==
    /\ e.changes # <<>>
    /\ \/ CaptureEntry(e)
       \/ e.myID # 0 /\ DictHas(d, e.myID)
       \/ e.myID # 0 /\ ~DictHas(d, e.myID) /\ e.changes[1].t = 1
       \/ RekeyEntryOf(e, d) /\ SomeMatch(d, e)

\* The myID of the record the entry is applied to
TargetOf(e, d) == IF e.myID = 0 THEN MaxOf(DictKeys(d)) + 1 ELSE e.myID

\* The last needCaptured change of the entry, 0 when it has none
LastCaptured(e) == MaxOf({j \in 1..Len(e.changes) : e.changes[j].t = 1})

\* The rules of the rarity, in their order; f is the payload of the change:
\* f[1] the species, f[11] the extraRarity
RarityByRules(f) ==
    CASE f[11] \in {1, 2, 3, 4, 5, 6, 151, 153, 168, 182, 854} -> 1
      [] f[11] \notin {1, 2, 3, 4, 5, 6, 151, 153, 168, 182, 854}
            /\ f[11] \in {180, 555, 855} -> 2
      [] f[11] \notin {1, 2, 3, 4, 5, 6, 151, 153, 168, 182, 854, 180, 555, 855}
            /\ f[11] = f[1] -> 1
      [] OTHER -> 0

\* C20: after an entry with a needCaptured change has been applied, the
\* record's rarity is the one the rules give, in their order, for the
\* extraRarity and the species of that change's payload: one of the eleven
\* shiny values gives 1, else one of the three shadow values 2, else
\* extraRarity = species 1, else 0; every rarity returned is in {0, 1, 2}.
RarityFollowsRules ==
    [][/\ \A k \in 1..Len(p_entries) :
            (InSyncAt(k) /\ AppliedEntry(p_entries[k], p_d)
                /\ LastCaptured(p_entries[k]) > 0) =>
               /\ DictHas(p_d', TargetOf(p_entries[k], p_d))
               /\ DictGet(p_d', TargetOf(p_entries[k], p_d)).shiny =
                      RarityByRules(p_entries[k].changes[LastCaptured(p_entries[k])].f)
       /\ p_pc' = "done" => \A n \in 1..Len(p_out') : p_out'[n].shiny \in {0, 1, 2}
      ]_vars

\* C20 witness: a capture of species 180 with extraRarity 180, which the
\* shadow rule and the species rule both match, has been stored with rarity 2.
ShadowRuleBeforeSpeciesRule ==
    /\ p_pc = "done"
    /\ p_whole
    /\ \E n \in 1..Len(p_out) : p_out[n].species = 180 /\ p_out[n].shiny = 2

\* ------------------------------------------------------------------------
\* The extraRarity field of the snapshot
\* ------------------------------------------------------------------------

\* The value the snapshot carries for a rarity
CanonicalExtra(rarity) == IF rarity = 1 THEN 1 ELSE IF rarity = 2 THEN 180 ELSE 0

\* The records a load response carries for slot n, read back from pSextra
LoadedRecords(n) == DecodeSnapshotBlob(op.resp.pextra[n]).records

\* C21: in every load response, each record of each slot's snapshot carries
\* an extraRarity that is a function of the persisted record's rarity alone:
\* 1 for rarity 1, 180 for rarity 2, 0 otherwise; the raw extraRarity of the
\* capture (180, 555, 7, ...) is neither stored in the record nor re-emitted.
ExtraRarityFromRarityOnly ==
    (op.phase = "done" /\ op.resp.kind = "load") =>
        \A n \in {"1", "2", "3"} :
            LET roster == RosterIn(pokemon_file[safe_email(op.req.Email)][n])
            IN  /\ Len(LoadedRecords(n)) = Len(roster)
                /\ \A k \in 1..Len(roster) :
                      /\ roster[k].extra_rarity = <<>>
                      /\ LoadedRecords(n)[k].extra_rarity = CanonicalExtra(roster[k].shiny)

\* C21 witness: the last save captured with extraRarity = 555, and the load
\* that follows re-emits 180 for that record, of rarity 2.
Capture555LoadedAs180 ==
    /\ op.phase = "done"
    /\ op.resp.kind = "load"
    /\ raw_file[safe_email(op.req.Email)].st = "ok"
    /\ raw_file[safe_email(op.req.Email)].c[1].extra =
           EncodeDelta(<<[myID |-> 0, changes |-> <<NeedCaptured(4, 2, 555, <<>>)>>]>>)
    /\ \E n \in {"1", "2", "3"} :
          LET roster == RosterIn(pokemon_file[safe_email(op.req.Email)][n])
          IN  \E k \in 1..Len(roster) :
                 /\ roster[k].species = 4
                 /\ roster[k].shiny = 2
                 /\ Len(LoadedRecords(n)) = Len(roster)
                 /\ LoadedRecords(n)[k].extra_rarity = 180

\* ------------------------------------------------------------------------
\* Properties of compute_profile_id (checked under SpecProfile)
\* ------------------------------------------------------------------------

\* The character-value sum of a token, by the table of the ProfileID rules:
\* a..z count 1..26, the digits 1..9 count 1..9, anything else counts 0
ValueByTable(c) ==
    IF \E k \in 1..26 : LowerCase[k] = c THEN CHOOSE k \in 1..26 : LowerCase[k] = c
    ELSE IF c \in {"1", "2", "3", "4", "5", "6", "7", "8", "9"} THEN DecimalValue(<<c>>)
    ELSE 0

RECURSIVE SumByTable(_)
SumByTable(s) == IF s = <<>> THEN 0 ELSE ValueByTable(s[1]) + SumByTable(Tail(s))

\* C22: compute_profile_id returns no identity whenever the character-value
\* sum of currentSave is 0, trainerId < 333 or trainerId > 99999, and returns
\* an identity for every 14-character token with a positive sum and a
\* trainerId in 333..99999.
ProfileRejection ==
    (c_pc = "done" /\ c_in.kind = "profile") =>
        /\ (SumByTable(c_in.current_save) = 0 \/ c_in.trainer_id < 333
                \/ c_in.trainer_id > 99999) => c_dec = <<>>
        /\ (Len(c_in.current_save) = 14 /\ SumByTable(c_in.current_save) > 0
                /\ c_in.trainer_id >= 333 /\ c_in.trainer_id <= 99999) => c_dec # <<>>

\* C22 witness: trainerId 100000 with a 14-character token of positive sum
\* has been refused.
TrainerAboveLimitRefused ==
    /\ c_pc = "done"
    /\ c_in.kind = "profile"
    /\ c_in.trainer_id = 100000
    /\ Len(c_in.current_save) = 14
    /\ SumByTable(c_in.current_save) = 364
    /\ c_dec = <<>>

\* The limits accepted: trainerId 333 and 99999 have an identity (not a
\* claim's formula; it shows the accepting side of the rule is reached)
TrainerAtLimitsAccepted ==
    /\ c_pc = "done"
    /\ c_in.kind = "profile"
    /\ c_in.trainer_id \in {333, 99999}
    /\ c_dec # <<>>

\* The number of decimal digits of r > 0, and its k-th digit from the left
RECURSIVE DigitCount(_)
DigitCount(r) == IF r < 10 THEN 1 ELSE 1 + DigitCount(r \div 10)

RECURSIVE TenTo(_)
TenTo(e) == IF e = 0 THEN 1 ELSE 10 * TenTo(e - 1)

DigitAt(r, k) == (r \div TenTo(DigitCount(r) - k)) % 10

\* The product r of an accepted input
ProductOf(inp) == inp.trainer_id * SumByTable(inp.current_save) * 14

Accepted(inp) ==
    /\ Len(inp.current_save) = 14
    /\ SumByTable(inp.current_save) > 0
    /\ inp.trainer_id >= 333
    /\ inp.trainer_id <= 99999

\* C23: for every accepted input, with r = trainerId * s * 14 and d0 the
\* first decimal digit of r, the ProfileID has as many letters as r has
\* digits, its k-th letter is the letter at 0-based index dk + d0 of a..z,
\* and dk + d0 is below 26, so no digit is dropped.
ProfileLetterPerDigit ==
    (c_pc = "done" /\ c_in.kind = "profile" /\ Accepted(c_in)) =>
        /\ c_dec # <<>>
        /\ Len(c_dec[1]) = DigitCount(ProductOf(c_in))
        /\ \A k \in 1..DigitCount(ProductOf(c_in)) :
              /\ DigitAt(ProductOf(c_in), k) + DigitAt(ProductOf(c_in), 1) < 26
              /\ c_dec[1][k] =
                    LowerCase[DigitAt(ProductOf(c_in), k) + DigitAt(ProductOf(c_in), 1) + 1]

\* C23 witness: trainerId 714 with a token of sum 1 gives r = 9996, whose
\* digits shifted by 9 are the letters s, s, s, p: the largest index, 18.
ProfileOf9996 ==
    /\ c_pc = "done"
    /\ c_in.kind = "profile"
    /\ c_in.trainer_id = 714
    /\ SumByTable(c_in.current_save) = 1
    /\ ProductOf(c_in) = 9996
    /\ c_dec = <<<<"s", "s", "s", "p">>>>

\* ------------------------------------------------------------------------
\* The ProfileID and the names of a load response
\* ------------------------------------------------------------------------

\* C24: whenever compute_profile_id gives no identity for the account's
\* current_save and trainer_id, the load response has no ProfileID key.
NoIdentityNoProfileID ==
    (op.phase = "done" /\ op.resp.kind = "load"
        /\ compute_profile_id(op.resp.CurrentSave, op.resp.TrainerID) = <<>>)
    => op.resp.ProfileID = <<>>

\* A load answered for an account without identity (the case of C24)
LoadedWithoutIdentity ==
    /\ op.phase = "done"
    /\ op.resp.kind = "load"
    /\ compute_profile_id(op.resp.CurrentSave, op.resp.TrainerID) = <<>>
    /\ op.resp.ProfileID = <<<<"N", "o", "n", "e">>>>

\* ------------------------------------------------------------------------
\* Account creation by handle_load
\* ------------------------------------------------------------------------

\* A load or createAccount request answered for an email that had no account
CreatedByLoad ==
    /\ op.phase = "done"
    /\ op.req.Action \in {"loadAccount", "createAccount"}
    /\ op.pre_account = NoFile

\* C25: for an email with no account, a createAccount request (or a
\* loadAccount request, auto-create being on) persists an account with a
\* trainerId in 1000..99999, a currentSave of 14 characters of a-z0-9, three
\* slots with nickname Satoshi, avatar none and money 50, a pokedex of 151
\* zeros, and empty rosters; the answer has Result=Success, PC1=PC2=PC3=0,
\* p1extra=yqym and that CurrentSave.
LoadCreatesAccount ==
    CreatedByLoad =>
        LET se == safe_email(op.req.Email)
        IN  /\ account_file[se].st = "ok"
            /\ account_file[se].c[1].trainer_id \in 1000..99999
            /\ Len(account_file[se].c[1].current_save) = 14
            /\ \A k \in 1..Len(account_file[se].c[1].current_save) :
                  \E j \in 1..26, d \in 1..10 :
                      account_file[se].c[1].current_save[k] \in {LowerCase[j], DecimalDigits[d]}
            /\ DOMAIN account_file[se].c[1].slots = {"1", "2", "3"}
            /\ \A n \in DOMAIN account_file[se].c[1].slots :
                  /\ account_file[se].c[1].slots[n].nickname = <<"Satoshi">>
                  /\ account_file[se].c[1].slots[n].avatar = <<"none">>
                  /\ account_file[se].c[1].slots[n].money = <<50>>
            /\ account_file[se].c[1].pokedex = [k \in 1..151 |-> "0"]
            /\ \A n \in NumValues : RosterIn(pokemon_file[se][n]) = <<>>
            /\ op.resp.kind = "load"
            /\ op.resp.Result = "Success"
            /\ \A n \in {"1", "2", "3"} : op.resp.PC[n] = 0
            /\ op.resp.pextra["1"] = <<"y", "q", "y", "m">>
            /\ op.resp.CurrentSave = account_file[se].c[1].current_save

\* C25 witness: a createAccount request on the empty store has been answered
\* and the account file and the roster file of slot 1 are written.
CreateAccountAnswered ==
    /\ CreatedByLoad
    /\ op.req.Action = "createAccount"
    /\ op.resp.kind = "load"
    /\ account_file[safe_email(op.req.Email)].st = "ok"
    /\ pokemon_file[safe_email(op.req.Email)]["1"].st = "ok"

\* ------------------------------------------------------------------------
\* Password validation (checked under SpecValidate)
\* ------------------------------------------------------------------------

\* account.get("password", "")
StoredPassword(account) == IF account.password = <<>> THEN "" ELSE account.password[1]

\* A load answered for an existing account with a Pass that is not the
\* stored password
LoadWithOtherPass ==
    /\ validate_password
    /\ op.phase = "done"
    /\ op.req.Action \in {"loadAccount", "createAccount"}
    /\ op.pre_account.st = "ok"
    /\ StoredPassword(op.pre_account.c[1]) # op.req.Pass

WrongPassAnswer == [kind |-> "fail", Result |-> "Failure", Reason |-> "WrongPass"]

\* C26: with password validation on, every load of an existing account whose
\* Pass differs from the stored password is answered Result=Failure and
\* Reason=WrongPass and leaves the files as they were, whether a load, a
\* createAccount or a first save created the account.
WrongPassRefused ==
    LoadWithOtherPass =>
        /\ op.resp = WrongPassAnswer
        /\ account_file[safe_email(op.req.Email)] = op.pre_account
        /\ pokemon_file[safe_email(op.req.Email)]["1"] = op.pre_pokemon

\* The same for the accounts that a load or a createAccount request created
\* with a password: these loads are refused.
WrongPassRefusedWithStoredPassword ==
    (LoadWithOtherPass /\ StoredPassword(op.pre_account.c[1]) # "") =>
        /\ op.resp = WrongPassAnswer
        /\ account_file[safe_email(op.req.Email)] = op.pre_account
        /\ pokemon_file[safe_email(op.req.Email)]["1"] = op.pre_pokemon

\* A load with password q refused for an account created with password p
LoadRefusedForWrongPass ==
    /\ LoadWithOtherPass
    /\ StoredPassword(op.pre_account.c[1]) = "p"
    /\ op.req.Pass = "q"
    /\ op.resp = WrongPassAnswer

\* A load answered with the account for an account that a first save created
LoadOfSaveCreatedAccount ==
    /\ LoadWithOtherPass
    /\ op.pre_account.c[1].password = <<>>
    /\ op.resp.kind = "load"

\* ------------------------------------------------------------------------
\* The species of the persisted records
\* ------------------------------------------------------------------------

\* C27: after any sequence of saves, every record of every persisted roster
\* has species >= 1, whatever needCaptured, needEvolve or needTrade payloads
\* the deltas carried and wherever a delta ended.
PersistedSpeciesPositive ==
    \A se \in SafeEmails, n \in NumValues :
        \A k \in 1..Len(RosterIn(pokemon_file[se][n])) :
            RosterIn(pokemon_file[se][n])[k].species >= 1

\* A save whose capture was cut off before the species has persisted a
\* record of species 0 (the case of C27)
SpeciesZeroPersisted ==
    /\ op.phase = "done"
    /\ op.req.Action = "saveAccount"
    /\ ~op.req.whole
    /\ \E k \in 1..Len(RosterIn(pokemon_file[safe_email(op.req.Email)][op.req.num])) :
          RosterIn(pokemon_file[safe_email(op.req.Email)][op.req.num])[k].species = 0

\* ------------------------------------------------------------------------
\* The slots of a persisted account
\* ------------------------------------------------------------------------

\* C28: after any sequence of requests, every persisted account has exactly
\* three slot entries, keyed "1", "2" and "3", whether a load or a first save
\* created the account and whatever the num of the saves.
AccountHasThreeSlots ==
    \A se \in SafeEmails :
        account_file[se].st = "ok" => DOMAIN account_file[se].c[1].slots = {"1", "2", "3"}

\* A first save to slot 2 has persisted an account whose only slot entry is
\* "2" (the case of C28 for an account created by a save)
SaveCreatedAccountHasOneSlot ==
    /\ op.phase = "done"
    /\ op.req.Action = "saveAccount"
    /\ op.req.num = "2"
    /\ op.pre_account = NoFile
    /\ account_file[safe_email(op.req.Email)].st = "ok"
    /\ DOMAIN account_file[safe_email(op.req.Email)].c[1].slots = {"2"}

\* ------------------------------------------------------------------------
\* The fields a change writes (checked under SpecParse)
\* ------------------------------------------------------------------------

\* The keys of a record
RecordFields ==
    {"id", "species", "experience", "level", "move1", "move2", "move3", "move4",
     "moveSelected", "targetType", "myID", "position", "shiny", "tag", "extra_rarity"}

\* The fields the change type names
NamedFields(t) ==
    CASE t = 1 -> {"species", "experience", "level", "move1", "move2", "move3", "move4",
                   "moveSelected", "targetType", "position", "shiny", "tag"}
      [] t = 2 -> {"level"}
      [] t = 3 -> {"experience"}
      [] t = 4 -> {"move1", "move2", "move3", "move4"}
      [] t = 5 -> {"moveSelected"}
      [] t = 6 -> {"species"}
      [] t = 7 -> {"targetType"}
      [] t = 8 -> {"position"}
      [] t = 9 -> {"tag"}
      [] t = 10 -> {"species", "experience", "level", "move1", "move2", "move3", "move4",
                    "moveSelected", "targetType", "position"}
      [] OTHER -> {}

\* The fields named by the changes of an entry
EntryFields(e) == UNION {NamedFields(e.changes[j].t) : j \in 1..Len(e.changes)}

\* The entry addresses a record that is in the roster
ExistingEntry(e, d) == e.myID # 0 /\ DictHas(d, e.myID) /\ e.changes # <<>>

\* C29: the changes of an entry applied to an existing record modify only
\* the fields their types name (needLevel level, needExp experience,
\* needMoves move1..move4, needMoveSelected moveSelected, needEvolve species,
\* needTarget targetType, posChange position, needTag tag, needTrade the ten
\* stat fields and so never rarity, tag or myID); every other field of the
\* record and every other record stay as they were.
ChangeWritesNamedFieldsOnly ==
    [][\A k \in 1..Len(p_entries) :
          (p_pc = "loop" /\ ExistingEntry(p_entries[k], p_d) /\ InSyncAt(k)) =>
              /\ DictKeys(p_d') = DictKeys(p_d)
              /\ Len(p_d') = Len(p_d)
              /\ \A n \in 1..Len(p_d) :
                    /\ p_d'[n].k = p_d[n].k
                    /\ p_d[n].k # p_entries[k].myID => p_d'[n].v = p_d[n].v
                    /\ \A f \in RecordFields \ EntryFields(p_entries[k]) :
                          p_d'[n].v[f] = p_d[n].v[f]
      ]_vars

\* C29 witness: needTrade applied to the record of myID 7, of rarity 2: the
\* returned record has the traded species 9 and still rarity 2 and myID 7.
TradeKeptRarity ==
    /\ p_pc = "done"
    /\ p_whole
    /\ p_entries = <<[myID |-> 7, changes |-> <<NeedTrade(9, 4)>>]>>
    /\ Len(p_existing) = 1
    /\ p_existing[1].myID = 7
    /\ p_existing[1].shiny = 2
    /\ p_existing[1].species = 5
    /\ Len(p_out) = 1
    /\ p_out[1] = [p_existing[1] EXCEPT !.species = 9, !.position = 4,
                                        !.experience = p_out[1].experience,
                                        !.level = p_out[1].level,
                                        !.move1 = p_out[1].move1, !.move2 = p_out[1].move2,
                                        !.move3 = p_out[1].move3, !.move4 = p_out[1].move4,
                                        !.moveSelected = p_out[1].moveSelected,
                                        !.targetType = p_out[1].targetType]

\* ------------------------------------------------------------------------
\* The names of a load response
\* ------------------------------------------------------------------------

\* The name the response must carry for the record at one-based index i
NameOrDefault(poke, i) ==
    IF poke.tag # <<>> THEN poke.tag ELSE <<"P", "o", "k", "e", "m", "o", "n">> \o PyStr(i)

\* C30: in every load response, for each slot S and each record at
\* one-based index i of the slot's roster, pSPNi is the record's tag when the
\* tag is not empty and Pokemon<i> when it is empty.
NamesFallBackWhenTagEmpty ==
    (op.phase = "done" /\ op.resp.kind = "load") =>
        \A n \in {"1", "2", "3"} :
            LET roster == RosterIn(pokemon_file[safe_email(op.req.Email)][n])
            IN  /\ Len(op.resp.PN[n]) = Len(roster)
                /\ \A i \in 1..Len(roster) : op.resp.PN[n][i] = NameOrDefault(roster[i], i)

\* The same for the records that have a tag: their name is the tag
NamesAreTagsWhenTagged ==
    (op.phase = "done" /\ op.resp.kind = "load") =>
        \A n \in {"1", "2", "3"} :
            LET roster == RosterIn(pokemon_file[safe_email(op.req.Email)][n])
            IN  /\ Len(op.resp.PN[n]) = Len(roster)
                /\ \A i \in 1..Len(roster) :
                      roster[i].tag # <<>> => op.resp.PN[n][i] = roster[i].tag

\* A load has answered an empty name for a record with an empty tag (the
\* case of C30)
EmptyTagLoadedAsEmptyName ==
    /\ op.phase = "done"
    /\ op.resp.kind = "load"
    /\ \E n \in {"1", "2", "3"} :
          LET roster == RosterIn(pokemon_file[safe_email(op.req.Email)][n])
          IN  \E i \in 1..Len(roster) :
                 /\ roster[i].tag = <<>>
                 /\ Len(op.resp.PN[n]) = Len(roster)
                 /\ op.resp.PN[n][i] = <<>>

\* A load has answered the tag Bu as the name of a record
TagLoadedAsName ==
    /\ op.phase = "done"
    /\ op.resp.kind = "load"
    /\ \E n \in {"1", "2", "3"} : \E i \in 1..Len(op.resp.PN[n]) :
          op.resp.PN[n][i] = <<"B", "u">>

\* ------------------------------------------------------------------------
\* The envelope of the encoders' output (C31)
\* ------------------------------------------------------------------------

\* The number written by the first letter of a blob: the length of H
HeaderLength(blob) == decode_int_string(<<blob[1]>>)

\* H: the letters after the first that write the length of the body
HeaderOf(blob) == SubSeq(blob, 2, 1 + HeaderLength(blob))

\* Everything after H
BodyOf(blob) == SubSeq(blob, 2 + HeaderLength(blob), Len(blob))

\* A blob splits as H_len || H || body, H_len writing the length of H and H
\* the number of characters of body
EnvelopeSplits(blob) ==
    /\ Len(blob) >= 1
    /\ Len(blob) >= 1 + HeaderLength(blob)
    /\ <<blob[1]>> = encode_int(Len(HeaderOf(blob)))
    /\ decode_int_string(HeaderOf(blob)) = Len(BodyOf(blob))

\* C31: for every roster and every key/value map, the empty ones included,
\* the encoder's output splits as H_len || H || body, where H_len is one
\* letter writing the length of H and H decodes to the number of characters
\* of body
EncoderOutputSplits ==
    (c_pc \in {"encoded", "decoded"} /\ c_in.kind \in {"kv", "snapshot"}) =>
        EnvelopeSplits(c_enc)

\* The argument of the encoder is the empty roster or the empty map
EmptyArgument ==
    \/ c_in.kind = "kv" /\ c_in.m = <<>>
    \/ c_in.kind = "snapshot" /\ c_in.roster = <<>>

\* C31, amended: for every roster and map that is not empty the output splits
\* as H_len || H || body with H writing the number of characters of body;
\* the empty roster and the empty map encode to the literal yqym, whose H
\* writes 4 over a body of 2 characters
NonEmptyOutputSplits ==
    (c_pc \in {"encoded", "decoded"} /\ c_in.kind \in {"kv", "snapshot"}) =>
        IF EmptyArgument
        THEN /\ c_enc = <<"y", "q", "y", "m">>
             /\ decode_int_string(HeaderOf(c_enc)) = 4
             /\ Len(BodyOf(c_enc)) = 2
        ELSE EnvelopeSplits(c_enc)

\* A roster of two records has been encoded, under a header of two letters
\* that writes the length of the rest
TwoRecordsEncodedUnderHeader ==
    /\ c_pc = "encoded"
    /\ c_in.kind = "snapshot"
    /\ Len(c_in.roster) = 2
    /\ HeaderLength(c_enc) = 2
    /\ decode_int_string(HeaderOf(c_enc)) = Len(c_enc) - 3

\* The empty roster has been encoded: its header says 4, its body has the
\* two characters of the count
EmptyRosterEncoded ==
    /\ c_pc = "encoded"
    /\ c_in.kind = "snapshot"
    /\ c_in.roster = <<>>
    /\ decode_int_string(HeaderOf(c_enc)) = 4
    /\ Len(BodyOf(c_enc)) = 2

\* ------------------------------------------------------------------------
\* The readers on truncated blobs and on characters outside LETTER_LIST (C32)
\* ------------------------------------------------------------------------

\* Every character of s is one of the ten letters
InAlphabet(s) == \A n \in 1..Len(s) : s[n] \in Letters

\* The letters from cursor i that write a number of the given length: they run
\* past the end of the blob, or one of them is outside the alphabet
BadNumber(blob, i, length) ==
    \/ i + length > Len(blob)
    \/ ~InAlphabet(Slice(blob, i, i + length))

\* The single-prefixed form at cursor i is truncated or has a letter outside
\* the alphabet in its length or value
BadSingle(blob, i) ==
    \/ BadNumber(blob, i, 1)
    \/ BadNumber(blob, i + 1, decode_int_string(<<At(blob, i)>>))

\* The same for the double-prefixed form: len_len, length, value
BadDouble(blob, i) ==
    \/ BadNumber(blob, i, 1)
    \/ BadNumber(blob, i + 1, decode_int_string(<<At(blob, i)>>))
    \/ LET len_len == decode_int_string(<<At(blob, i)>>)
       IN  BadNumber(blob, i + 1 + len_len,
                     decode_int_string(Slice(blob, i + 1, i + 1 + len_len)))

\* The string at cursor i: its length letter is missing or outside the
\* alphabet, or its characters run past the end
BadString(blob, i) ==
    \/ BadNumber(blob, i, 1)
    \/ i + 1 + decode_int_string(<<At(blob, i)>>) > Len(blob)

\* The call that has returned was on a truncated or garbled input
FailedRead ==
    /\ c_pc = "decoded"
    /\ \/ c_in.kind = "read_int" /\ BadSingle(c_in.blob, c_in.i)
       \/ c_in.kind = "read_int2" /\ BadDouble(c_in.blob, c_in.i)
       \/ c_in.kind = "read_string" /\ BadString(c_in.blob, c_in.i)

\* 0 for the integer readers, the empty string for read_string
ZeroOf(kind) == IF kind = "read_string" THEN <<>> ELSE 0

\* C32: read_int, read_int2 and read_string called at cursor i on an input
\* that is truncated or has a letter outside the alphabet in its length or
\* value return the value 0 (the empty string for read_string) and the
\* cursor i
FailedReadLeavesCursor ==
    FailedRead => (c_dec[1] = ZeroOf(c_in.kind) /\ c_dec[2] = c_in.i)

\* The value half of C32: a failed read returns 0 or the empty string
FailedReadReturnsZero ==
    FailedRead => c_dec[1] = ZeroOf(c_in.kind)

\* The cursor a failed read returns is i only when there is nothing at i
FailedReadCursorInPlaceOnlyAtEnd ==
    FailedRead => (c_dec[2] = c_in.i <=> c_in.i >= Len(c_in.blob))

\* read_int on "w" followed by one letter, at cursor 0: the declared length 2
\* runs past the end, and the cursor returned is 1
TruncatedReadAdvanced ==
    /\ c_pc = "decoded"
    /\ c_in.kind = "read_int"
    /\ c_in.blob = <<"w", "y">>
    /\ c_in.i = 0
    /\ c_dec = <<0, 1>>

\* ------------------------------------------------------------------------
\* A delta cut short inside an entry (C33)
\* ------------------------------------------------------------------------

\* The fields a payload writes, in the order it is read.  The extraRarity of
\* needCaptured writes no field of its own (it decides shiny, which is left
\* out of the comparison below).
WireFields(t) ==
    CASE t \in {1, 10} -> <<"species", "experience", "level", "move1", "move2", "move3",
                            "move4", "moveSelected", "targetType", "position">>
      [] t = 2 -> <<"level">>
      [] t = 3 -> <<"experience">>
      [] t = 4 -> <<"move1", "move2", "move3", "move4">>
      [] t = 5 -> <<"moveSelected">>
      [] t = 6 -> <<"species">>
      [] t = 7 -> <<"targetType">>
      [] t = 8 -> <<"position">>
      [] OTHER -> <<>>

\* The writes of one change: field and value, in wire order
WritesOfChange(c) ==
    [n \in 1..Len(WireFields(c.t)) |-> [f |-> WireFields(c.t)[n], v |-> c.f[n]]]
    \o (IF c.t \in {1, 9} THEN <<[f |-> "tag", v |-> c.s]>> ELSE <<>>)

RECURSIVE WritesOf(_)
WritesOf(changes) ==
    IF changes = <<>> THEN <<>>
    ELSE WritesOfChange(Head(changes)) \o WritesOf(Tail(changes))

RECURSIVE ApplyWrites(_, _, _)
\* rec after the first j writes
ApplyWrites(rec, writes, j) ==
    IF j = 0 THEN rec
    ELSE [ApplyWrites(rec, writes, j - 1) EXCEPT ![writes[j].f] = writes[j].v]

\* The roster returned when the parse of entry e stopped after j writes to
\* the record under key id, which started as rec; shiny as returned
RosterAfterWrites(d, id, rec, e, j, shiny) ==
    FinishDelta(DictSet(d, id, [ApplyWrites(rec, WritesOf(e.changes), j)
                                   EXCEPT !.shiny = shiny]))

\* The returned roster is the roster before the entry, or the roster with a
\* prefix of the entry's writes done and every later field as it was
StoppedBeforeFailingRead(d, e) ==
    \/ p_out = FinishDelta(d)
    \/ /\ ExistingEntry(e, d)
       /\ \E j \in 0..Len(WritesOf(e.changes)) :
             p_out = RosterAfterWrites(d, e.myID, DictGet(d, e.myID), e, j,
                                       DictGet(d, e.myID).shiny)
    \/ /\ e.myID = 0
       /\ e.changes # <<>>
       /\ e.changes[1].t = 1
       /\ \E j \in 0..Len(WritesOf(e.changes)), shiny \in 0..2 :
             p_out = RosterAfterWrites(d, NewMyID(d), default_pokemon(NewMyID(d)), e, j,
                                       shiny)

\* C33: once the cursor is exhausted or a read fails inside an entry,
\* parse_delta_save writes no further field of any record: the roster it
\* returns is the roster as it stood immediately before the failing read, so
\* a needCaptured or needTrade payload cut off in the middle never
\* overwrites the remaining fields with zeros or empty strings
CutShortWritesNoFurtherField ==
    (p_pc = "done" /\ ~p_whole /\ Len(p_entries) = 1) =>
        StoppedBeforeFailingRead(DictFromList(p_existing), p_entries[1])

\* A needTrade payload cut off after its species was applied to the record
\* of myID 1: the species is the payload's, the level and the position have
\* become 0
TradeCutShortZeroed ==
    /\ p_pc = "done"
    /\ ~p_whole
    /\ p_entries = <<[myID |-> 1, changes |-> <<NeedTrade(9, 4), NeedTag(<<"a", "b">>)>>]>>
    /\ Len(p_existing) = 1
    /\ p_existing[1].myID = 1
    /\ p_existing[1].level = 5
    /\ Len(p_out) = 1
    /\ p_out[1].species = 9
    /\ p_out[1].level = 0
    /\ p_out[1].position = 0

\* ------------------------------------------------------------------------
\* The entry with no changes (C34)
\* ------------------------------------------------------------------------

\* C34: an entry with change_count = 0, laid out as change_count followed by
\* its double-prefixed myID and no changes, leaves the roster unchanged and
\* the cursor at the first character of the next entry
EmptyEntryIsNoOp ==
    [][\A k \in 1..Len(p_entries) :
          (p_pc = "loop" /\ p_entries[k].changes = <<>> /\ InSyncAt(k)) =>
              (p_d' = p_d /\ p_i' = EntryAt(p_entries, k + 1))]_vars

\* The other half of C34: the entries after the empty entry are applied as
\* if it were absent
EmptyEntryAsIfAbsent ==
    (p_pc = "done" /\ p_whole) =>
        \A k \in 1..Len(p_entries) :
            p_entries[k].changes = <<>> =>
                p_out = parse_delta_save(EncodeDelta(WithoutEntry(p_entries, k)), p_existing)

\* What the parser does with it: the roster is as it was, the cursor is past
\* the two letters of the change count, on the first letter of the myID
EmptyEntryStopsAtMyID ==
    [][\A k \in 1..Len(p_entries) :
          (p_pc = "loop" /\ p_entries[k].changes = <<>> /\ InSyncAt(k)) =>
              (p_d' = p_d /\ p_i' = EntryAt(p_entries, k) + 2)]_vars

\* The empty entry for myID 1 followed by needLevel for myID 1, on the empty
\* roster: without the empty entry nothing is created, with it the letters
\* of its myID are read as an entry and a record comes out
EmptyEntryMadeARecord ==
    /\ p_pc = "done"
    /\ p_whole
    /\ p_existing = <<>>
    /\ p_entries = <<[myID |-> 1, changes |-> <<>>], [myID |-> 1, changes |-> <<NeedLevel(9)>>]>>
    /\ Len(p_out) = 1
    /\ parse_delta_save(EncodeDelta(WithoutEntry(p_entries, 1)), p_existing) = <<>>

\* ------------------------------------------------------------------------
\* posChange for an unknown myID that matches no record (C35)
\* ------------------------------------------------------------------------

\* C35: an entry with a non-zero myID that is not in the roster, whose first
\* change is posChange and whose new position is no record's position or
\* myID, is dropped whole for any change_count >= 1: the roster is unchanged
\* by it and the cursor resumes at the first character of the next entry
UnmatchedRekeyDropsEntry ==
    [][\A k \in 1..Len(p_entries) :
          (/\ p_pc = "loop"
           /\ RekeyEntryOf(p_entries[k], p_d)
           /\ ~SomeMatch(p_d, p_entries[k])
           /\ InSyncAt(k)) =>
              (p_d' = p_d /\ p_i' = EntryAt(p_entries, k + 1))]_vars

\* What the parser does: the roster is unchanged and the cursor is past the
\* first change, which is the next entry only when change_count = 1
UnmatchedRekeySkipsOneChange ==
    [][\A k \in 1..Len(p_entries) :
          (/\ p_pc = "loop"
           /\ RekeyEntryOf(p_entries[k], p_d)
           /\ ~SomeMatch(p_d, p_entries[k])
           /\ InSyncAt(k)) =>
              /\ p_d' = p_d
              /\ p_i' = EntryAt(p_entries, k) + Len(encode_with_length(Len(p_entries[k].changes)))
                        + Len(encode_with_double_length(p_entries[k].myID))
                        + Len(EncodeChange(p_entries[k].changes[1]))
              /\ Len(p_entries[k].changes) = 1 => p_i' = EntryAt(p_entries, k + 1)]_vars

\* posChange(3) and needLevel(9) for myID 7 on the empty roster: the entry
\* loop goes on with the cursor on the first letter of needLevel
SecondChangeReadAsEntry ==
    /\ p_pc = "loop"
    /\ p_whole
    /\ p_existing = <<>>
    /\ p_entries = <<[myID |-> 7, changes |-> <<PosChange(3), NeedLevel(9)>>]>>
    /\ p_d = <<>>
    /\ p_i = Len(p_extra) - Len(EncodeChange(NeedLevel(9)))

\* ------------------------------------------------------------------------
\* The number of records of a persisted roster (C36)
\* ------------------------------------------------------------------------

\* Thread t is in save_account, writing the roster file of safe email se, slot n
WritesRoster(t, se, n) ==
    /\ safe_email(thr[t].req.Email) = se
    /\ WriteSlot(thr[t].req) = n

\* C36: across any sequence of requests, the number of records in a slot's
\* persisted roster never decreases except by a save to that slot with
\* newGame=yes; no delta, well-formed or not, removes a record.  A roster
\* file changes only in save_account: it is opened (and holds no roster
\* until the dump), then dumped with at least as many records as it had when
\* the request began, unless the request is a save with newGame=yes.
RosterNeverShrinks ==
    [][\A se \in SafeEmails, n \in NumValues :
          \/ pokemon_file'[se][n] = pokemon_file[se][n]
          \/ \E t \in Threads :
                /\ thr[t].pc = "open_pokemon"
                /\ WritesRoster(t, se, n)
                /\ pokemon_file'[se][n] = TornFile
          \/ \E t \in Threads :
                /\ thr[t].pc = "dump_pokemon"
                /\ WritesRoster(t, se, n)
                /\ pokemon_file'[se][n].st = "ok"
                /\ \/ Len(RosterIn(pokemon_file'[se][n])) >= Len(RosterIn(thr[t].pre_pokemon))
                   \/ /\ thr[t].req.Action = "saveAccount"
                      /\ thr[t].req.newGame = "yes"
      ]_vars

\* The same seen from the answered request: a save without newGame=yes
\* leaves at least the records the slot had before it
SavedRosterNotSmaller ==
    (/\ op.phase = "done"
     /\ op.req.Action = "saveAccount"
     /\ op.req.newGame # "yes"
     /\ op.resp.kind # "exception") =>
        Len(RosterIn(pokemon_file[safe_email(op.req.Email)][op.req.num]))
            >= Len(RosterIn(op.pre_pokemon))

\* A posChange for the unknown myID 7 was saved on a roster of one record:
\* the record is rekeyed, the roster still has one record
RekeySavedKeepsCount ==
    /\ op.phase = "done"
    /\ op.req.Action = "saveAccount"
    /\ op.req.extra = EncodeDelta(<<[myID |-> 7, changes |-> <<PosChange(1)>>]>>)
    /\ Len(RosterIn(op.pre_pokemon)) = 1
    /\ Len(RosterIn(pokemon_file[safe_email(op.req.Email)][op.req.num])) = 1
    /\ RosterIn(pokemon_file[safe_email(op.req.Email)][op.req.num])[1].myID = 7

\* A capture cut off after its change type was saved on a roster of one
\* record: the roster has two
CutShortSavedKeepsCount ==
    /\ op.phase = "done"
    /\ op.req.Action = "saveAccount"
    /\ ~op.req.whole
    /\ Len(RosterIn(op.pre_pokemon)) = 1
    /\ Len(RosterIn(pokemon_file[safe_email(op.req.Email)][op.req.num])) = 2

\* A save with newGame=yes has emptied a roster of one record
NewGameShrankRoster ==
    /\ op.phase = "done"
    /\ op.req.Action = "saveAccount"
    /\ op.req.newGame = "yes"
    /\ Len(RosterIn(op.pre_pokemon)) = 1
    /\ RosterIn(pokemon_file[safe_email(op.req.Email)][op.req.num]) = <<>>

\* The parser alone, on every delta and roster of its input family, cut short
\* or not: it returns at least as many records as it was given
ParserKeepsRecords ==
    p_pc = "done" => Len(p_out) >= Len(p_existing)

\* ------------------------------------------------------------------------
\* Termination of parse_delta_save (C37)
\* ------------------------------------------------------------------------

\* Every iteration of the entry loop leaves the cursor further on
CursorIncreases == [][p_pc = "loop" => p_i' > p_i]_vars

\* The loop is left once the cursor is at or past the end of the input
LoopEndsAtEnd == [][(p_pc = "loop" /\ p_i' >= Len(p_extra)) => p_pc' = "finish"]_vars

\* C37: parse_delta_save terminates on every input string and every roster:
\* the cursor strictly increases on every iteration of the entry loop (the
\* change_count = 0 branch and both skip branches included), and the loop
\* ends once the cursor reaches the end of the input
ParseTerminates == CursorIncreases /\ LoopEndsAtEnd /\ <>(p_pc = "done")

\* A string of six characters read as entries of change_count = 0 alone,
\* one or two characters at a time, up to its end
ZeroCountsReadToEnd ==
    /\ p_pc = "done"
    /\ p_extra = <<"y", "w", "y", "m", "y", "m", "x", "m", "y", "x">>
    /\ p_i = Len(p_extra)
    /\ p_out = p_existing

\* The two skips were taken and the parse ended: the invalid entry (myID 0,
\* needLevel first) and the entry for the unknown myID 1
SkipsTakenToEnd ==
    /\ p_pc = "done"
    /\ p_whole
    /\ Len(p_entries) = 2
    /\ p_entries[1].myID = 0
    /\ p_entries[1].changes[1].t = 2
    /\ p_existing = <<>>
    /\ p_i = Len(p_extra)
    /\ p_out = <<>>

\* ------------------------------------------------------------------------
\* Isolation of the accounts by email (C38)
\* ------------------------------------------------------------------------

\* What is persisted for an address: its account file and its roster files
PersistedFor(email) ==
    <<account_file[safe_email(email)], pokemon_file[safe_email(email)]>>

\* The step belongs to a request made with Email = A
StepOfRequestWith(A) == op'.req.Email = A

\* C38: accounts are isolated by email: for any two distinct Email values A
\* and B, no request made with Email=A changes the state persisted for B,
\* from which the response of a load with Email=B is built
IsolatedByEmail ==
    [][\A A \in AllEmails, B \in AllEmails :
          (A # B /\ StepOfRequestWith(A)) => PersistedFor(B)' = PersistedFor(B)]_vars

\* The same for two addresses with distinct file names
IsolatedByFileName ==
    [][\A A \in AllEmails, B \in AllEmails :
          (safe_email(A) # safe_email(B) /\ StepOfRequestWith(A)) =>
              PersistedFor(B)' = PersistedFor(B)]_vars

\* A load with a_at_b.c, which made no save, is answered with a roster of
\* one record in slot 1: the record saved with a@b.c
OtherAddressSeesRoster ==
    /\ op.phase = "done"
    /\ op.req.Action = "loadAccount"
    /\ op.req.Email = SameFilesEmail
    /\ op.resp.kind = "load"
    /\ op.resp.PC["1"] = 1
    /\ last_saved[safe_email(OwnFilesEmail)]["1"] = <<>>

====
